---- MODULE Spec2Model ----
(***************************************************************************)
(* A model of email_cleanup/agent.py: the duplicate detector, the          *)
(* retention policy, the learned-pattern store and the folder walker.      *)
(* Text is a sequence of characters; a message body, a filter and a       *)
(* normalized body are such sequences.                                     *)
(***************************************************************************)
EXTENDS Integers, Sequences, FiniteSets, TLC

(***************************************************************************)
(* Characters.  A character of ASCII is the string of that one character;  *)
(* any other character is the string of its name, U+ and its code point in *)
(* four or more hexadecimal digits: Chr(233) = "U+00E9" is the letter e    *)
(* with an acute accent, Chr(12288) = "U+3000" the ideographic space.  The *)
(* backquote, which a string of this module cannot hold, is "U+0060".      *)
(* The tables below are those of Unicode 14.0.0, which the unicodedata of  *)
(* Python 3.11 carries; a pair <<a,b>> is the range of code points a..b.   *)
(***************************************************************************)
UpperSeq == <<"A","B","C","D","E","F","G","H","I","J","K","L","M",
              "N","O","P","Q","R","S","T","U","V","W","X","Y","Z">>
LowerSeq == <<"a","b","c","d","e","f","g","h","i","j","k","l","m",
              "n","o","p","q","r","s","t","u","v","w","x","y","z">>

Range(s) == {s[i] : i \in 1..Len(s)}

\* the element of a one-element set: in Once({F(x) : x \in {v}}) the
\* argument v is evaluated once, as in a Python call
Once(S) == CHOOSE r \in S : TRUE

HexDigits == <<"0","1","2","3","4","5","6","7","8","9",
               "A","B","C","D","E","F">>
RECURSIVE Hex(_, _)
Hex(n, width) ==
    IF n = 0 /\ width <= 0 THEN ""
    ELSE Hex(n \div 16, width - 1) \o HexDigits[(n % 16) + 1]
\* the character of code point n, for n above 127
Chr(n) == "U+" \o Hex(n, 4)
Chars(ranges) == {Chr(n) : n \in UNION {r[1]..r[2] : r \in ranges}}

\* \d of a str pattern: the 660 characters of category Nd, which come in
\* runs of ten; the ASCII digits and the code points of the other zeros
DigitSet ==
    {"0","1","2","3","4","5","6","7","8","9"} \cup
    {Chr(zero + k) : k \in 0..9, zero \in
      { 1632, 1776, 1984, 2406, 2534, 2662, 2790, 2918, 3046, 3174, 3302,
        3430, 3558, 3664, 3792, 3872, 4160, 4240, 6112, 6160, 6470, 6608,
        6784, 6800, 6992, 7088, 7232, 7248, 42528, 43216, 43264, 43472,
        43504, 43600, 44016, 65296, 66720, 68912, 69734, 69872, 69942,
        70096, 70384, 70736, 70864, 71248, 71360, 71472, 71904, 72016,
        72784, 73040, 73120, 92768, 92864, 93008, 120782, 120792, 120802,
        120812, 120822, 123200, 123632, 125264, 130032 }}

\* \s of a str pattern, and what str.strip() removes: the 29 characters
\* blank, tab, newline, return, form feed, the controls 0B and 1C to 1F,
\* and 85, A0, 1680, 2000 to 200A, 2028, 2029, 202F, 205F and 3000
SpaceSet ==
    {" ", "\t", "\n", "\r", "\f", "", "", "", "", ""} \cup
    Chars({<<133,133>>, <<160,160>>, <<5760,5760>>, <<8192,8202>>,
           <<8232,8233>>, <<8239,8239>>, <<8287,8287>>, <<12288,12288>>})

\* the characters str.lower() takes for cased when it looks around a capital
\* sigma: those of the property Cased that are not case-ignorable as well
Cased ==
    Range(UpperSeq) \cup Range(LowerSeq) \cup Chars(
      { <<170,170>>, <<181,181>>, <<186,186>>, <<192,214>>, <<216,246>>,
        <<248,442>>, <<444,447>>, <<452,659>>, <<661,687>>, <<880,883>>,
        <<886,887>>, <<891,893>>, <<895,895>>, <<902,902>>, <<904,906>>,
        <<908,908>>, <<910,929>>, <<931,1013>>, <<1015,1153>>,
        <<1162,1327>>, <<1329,1366>>, <<1376,1416>>, <<4256,4293>>,
        <<4295,4295>>, <<4301,4301>>, <<4304,4346>>, <<4349,4351>>,
        <<5024,5109>>, <<5112,5117>>, <<7296,7304>>, <<7312,7354>>,
        <<7357,7359>>, <<7424,7467>>, <<7531,7543>>, <<7545,7578>>,
        <<7680,7957>>, <<7960,7965>>, <<7968,8005>>, <<8008,8013>>,
        <<8016,8023>>, <<8025,8025>>, <<8027,8027>>, <<8029,8029>>,
        <<8031,8061>>, <<8064,8116>>, <<8118,8124>>, <<8126,8126>>,
        <<8130,8132>>, <<8134,8140>>, <<8144,8147>>, <<8150,8155>>,
        <<8160,8172>>, <<8178,8180>>, <<8182,8188>>, <<8450,8450>>,
        <<8455,8455>>, <<8458,8467>>, <<8469,8469>>, <<8473,8477>>,
        <<8484,8484>>, <<8486,8486>>, <<8488,8488>>, <<8490,8493>>,
        <<8495,8500>>, <<8505,8505>>, <<8508,8511>>, <<8517,8521>>,
        <<8526,8526>>, <<8544,8575>>, <<8579,8580>>, <<9398,9449>>,
        <<11264,11387>>, <<11390,11492>>, <<11499,11502>>, <<11506,11507>>,
        <<11520,11557>>, <<11559,11559>>, <<11565,11565>>, <<42560,42605>>,
        <<42624,42651>>, <<42786,42863>>, <<42865,42887>>, <<42891,42894>>,
        <<42896,42954>>, <<42960,42961>>, <<42963,42963>>, <<42965,42969>>,
        <<42997,42998>>, <<43002,43002>>, <<43824,43866>>, <<43872,43880>>,
        <<43888,43967>>, <<64256,64262>>, <<64275,64279>>, <<65313,65338>>,
        <<65345,65370>>, <<66560,66639>>, <<66736,66771>>, <<66776,66811>>,
        <<66928,66938>>, <<66940,66954>>, <<66956,66962>>, <<66964,66965>>,
        <<66967,66977>>, <<66979,66993>>, <<66995,67001>>, <<67003,67004>>,
        <<68736,68786>>, <<68800,68850>>, <<71840,71903>>, <<93760,93823>>,
        <<119808,119892>>, <<119894,119964>>, <<119966,119967>>,
        <<119970,119970>>, <<119973,119974>>, <<119977,119980>>,
        <<119982,119993>>, <<119995,119995>>, <<119997,120003>>,
        <<120005,120069>>, <<120071,120074>>, <<120077,120084>>,
        <<120086,120092>>, <<120094,120121>>, <<120123,120126>>,
        <<120128,120132>>, <<120134,120134>>, <<120138,120144>>,
        <<120146,120485>>, <<120488,120512>>, <<120514,120538>>,
        <<120540,120570>>, <<120572,120596>>, <<120598,120628>>,
        <<120630,120654>>, <<120656,120686>>, <<120688,120712>>,
        <<120714,120744>>, <<120746,120770>>, <<120772,120779>>,
        <<122624,122633>>, <<122635,122654>>, <<125184,125251>>,
        <<127280,127305>>, <<127312,127337>>, <<127344,127369>> })

\* the characters of the property Case_Ignorable
CaseIgnorable ==
    {"'", ".", ":", "^", "U+0060"} \cup Chars(
      { <<168,168>>, <<173,173>>, <<175,175>>, <<180,180>>, <<183,184>>,
        <<688,879>>, <<884,885>>, <<890,890>>, <<900,901>>, <<903,903>>,
        <<1155,1161>>, <<1369,1369>>, <<1375,1375>>, <<1425,1469>>,
        <<1471,1471>>, <<1473,1474>>, <<1476,1477>>, <<1479,1479>>,
        <<1524,1524>>, <<1536,1541>>, <<1552,1562>>, <<1564,1564>>,
        <<1600,1600>>, <<1611,1631>>, <<1648,1648>>, <<1750,1757>>,
        <<1759,1768>>, <<1770,1773>>, <<1807,1807>>, <<1809,1809>>,
        <<1840,1866>>, <<1958,1968>>, <<2027,2037>>, <<2042,2042>>,
        <<2045,2045>>, <<2070,2093>>, <<2137,2139>>, <<2184,2184>>,
        <<2192,2193>>, <<2200,2207>>, <<2249,2306>>, <<2362,2362>>,
        <<2364,2364>>, <<2369,2376>>, <<2381,2381>>, <<2385,2391>>,
        <<2402,2403>>, <<2417,2417>>, <<2433,2433>>, <<2492,2492>>,
        <<2497,2500>>, <<2509,2509>>, <<2530,2531>>, <<2558,2558>>,
        <<2561,2562>>, <<2620,2620>>, <<2625,2626>>, <<2631,2632>>,
        <<2635,2637>>, <<2641,2641>>, <<2672,2673>>, <<2677,2677>>,
        <<2689,2690>>, <<2748,2748>>, <<2753,2757>>, <<2759,2760>>,
        <<2765,2765>>, <<2786,2787>>, <<2810,2815>>, <<2817,2817>>,
        <<2876,2876>>, <<2879,2879>>, <<2881,2884>>, <<2893,2893>>,
        <<2901,2902>>, <<2914,2915>>, <<2946,2946>>, <<3008,3008>>,
        <<3021,3021>>, <<3072,3072>>, <<3076,3076>>, <<3132,3132>>,
        <<3134,3136>>, <<3142,3144>>, <<3146,3149>>, <<3157,3158>>,
        <<3170,3171>>, <<3201,3201>>, <<3260,3260>>, <<3263,3263>>,
        <<3270,3270>>, <<3276,3277>>, <<3298,3299>>, <<3328,3329>>,
        <<3387,3388>>, <<3393,3396>>, <<3405,3405>>, <<3426,3427>>,
        <<3457,3457>>, <<3530,3530>>, <<3538,3540>>, <<3542,3542>>,
        <<3633,3633>>, <<3636,3642>>, <<3654,3662>>, <<3761,3761>>,
        <<3764,3772>>, <<3782,3782>>, <<3784,3789>>, <<3864,3865>>,
        <<3893,3893>>, <<3895,3895>>, <<3897,3897>>, <<3953,3966>>,
        <<3968,3972>>, <<3974,3975>>, <<3981,3991>>, <<3993,4028>>,
        <<4038,4038>>, <<4141,4144>>, <<4146,4151>>, <<4153,4154>>,
        <<4157,4158>>, <<4184,4185>>, <<4190,4192>>, <<4209,4212>>,
        <<4226,4226>>, <<4229,4230>>, <<4237,4237>>, <<4253,4253>>,
        <<4348,4348>>, <<4957,4959>>, <<5906,5908>>, <<5938,5939>>,
        <<5970,5971>>, <<6002,6003>>, <<6068,6069>>, <<6071,6077>>,
        <<6086,6086>>, <<6089,6099>>, <<6103,6103>>, <<6109,6109>>,
        <<6155,6159>>, <<6211,6211>>, <<6277,6278>>, <<6313,6313>>,
        <<6432,6434>>, <<6439,6440>>, <<6450,6450>>, <<6457,6459>>,
        <<6679,6680>>, <<6683,6683>>, <<6742,6742>>, <<6744,6750>>,
        <<6752,6752>>, <<6754,6754>>, <<6757,6764>>, <<6771,6780>>,
        <<6783,6783>>, <<6823,6823>>, <<6832,6862>>, <<6912,6915>>,
        <<6964,6964>>, <<6966,6970>>, <<6972,6972>>, <<6978,6978>>,
        <<7019,7027>>, <<7040,7041>>, <<7074,7077>>, <<7080,7081>>,
        <<7083,7085>>, <<7142,7142>>, <<7144,7145>>, <<7149,7149>>,
        <<7151,7153>>, <<7212,7219>>, <<7222,7223>>, <<7288,7293>>,
        <<7376,7378>>, <<7380,7392>>, <<7394,7400>>, <<7405,7405>>,
        <<7412,7412>>, <<7416,7417>>, <<7468,7530>>, <<7544,7544>>,
        <<7579,7679>>, <<8125,8125>>, <<8127,8129>>, <<8141,8143>>,
        <<8157,8159>>, <<8173,8175>>, <<8189,8190>>, <<8203,8207>>,
        <<8216,8217>>, <<8228,8228>>, <<8231,8231>>, <<8234,8238>>,
        <<8288,8292>>, <<8294,8303>>, <<8305,8305>>, <<8319,8319>>,
        <<8336,8348>>, <<8400,8432>>, <<11388,11389>>, <<11503,11505>>,
        <<11631,11631>>, <<11647,11647>>, <<11744,11775>>, <<11823,11823>>,
        <<12293,12293>>, <<12330,12333>>, <<12337,12341>>, <<12347,12347>>,
        <<12441,12446>>, <<12540,12542>>, <<40981,40981>>, <<42232,42237>>,
        <<42508,42508>>, <<42607,42610>>, <<42612,42621>>, <<42623,42623>>,
        <<42652,42655>>, <<42736,42737>>, <<42752,42785>>, <<42864,42864>>,
        <<42888,42890>>, <<42994,42996>>, <<43000,43001>>, <<43010,43010>>,
        <<43014,43014>>, <<43019,43019>>, <<43045,43046>>, <<43052,43052>>,
        <<43204,43205>>, <<43232,43249>>, <<43263,43263>>, <<43302,43309>>,
        <<43335,43345>>, <<43392,43394>>, <<43443,43443>>, <<43446,43449>>,
        <<43452,43453>>, <<43471,43471>>, <<43493,43494>>, <<43561,43566>>,
        <<43569,43570>>, <<43573,43574>>, <<43587,43587>>, <<43596,43596>>,
        <<43632,43632>>, <<43644,43644>>, <<43696,43696>>, <<43698,43700>>,
        <<43703,43704>>, <<43710,43711>>, <<43713,43713>>, <<43741,43741>>,
        <<43756,43757>>, <<43763,43764>>, <<43766,43766>>, <<43867,43871>>,
        <<43881,43883>>, <<44005,44005>>, <<44008,44008>>, <<44013,44013>>,
        <<64286,64286>>, <<64434,64450>>, <<65024,65039>>, <<65043,65043>>,
        <<65056,65071>>, <<65106,65106>>, <<65109,65109>>, <<65279,65279>>,
        <<65287,65287>>, <<65294,65294>>, <<65306,65306>>, <<65342,65342>>,
        <<65344,65344>>, <<65392,65392>>, <<65438,65439>>, <<65507,65507>>,
        <<65529,65531>>, <<66045,66045>>, <<66272,66272>>, <<66422,66426>>,
        <<67456,67461>>, <<67463,67504>>, <<67506,67514>>, <<68097,68099>>,
        <<68101,68102>>, <<68108,68111>>, <<68152,68154>>, <<68159,68159>>,
        <<68325,68326>>, <<68900,68903>>, <<69291,69292>>, <<69446,69456>>,
        <<69506,69509>>, <<69633,69633>>, <<69688,69702>>, <<69744,69744>>,
        <<69747,69748>>, <<69759,69761>>, <<69811,69814>>, <<69817,69818>>,
        <<69821,69821>>, <<69826,69826>>, <<69837,69837>>, <<69888,69890>>,
        <<69927,69931>>, <<69933,69940>>, <<70003,70003>>, <<70016,70017>>,
        <<70070,70078>>, <<70089,70092>>, <<70095,70095>>, <<70191,70193>>,
        <<70196,70196>>, <<70198,70199>>, <<70206,70206>>, <<70367,70367>>,
        <<70371,70378>>, <<70400,70401>>, <<70459,70460>>, <<70464,70464>>,
        <<70502,70508>>, <<70512,70516>>, <<70712,70719>>, <<70722,70724>>,
        <<70726,70726>>, <<70750,70750>>, <<70835,70840>>, <<70842,70842>>,
        <<70847,70848>>, <<70850,70851>>, <<71090,71093>>, <<71100,71101>>,
        <<71103,71104>>, <<71132,71133>>, <<71219,71226>>, <<71229,71229>>,
        <<71231,71232>>, <<71339,71339>>, <<71341,71341>>, <<71344,71349>>,
        <<71351,71351>>, <<71453,71455>>, <<71458,71461>>, <<71463,71467>>,
        <<71727,71735>>, <<71737,71738>>, <<71995,71996>>, <<71998,71998>>,
        <<72003,72003>>, <<72148,72151>>, <<72154,72155>>, <<72160,72160>>,
        <<72193,72202>>, <<72243,72248>>, <<72251,72254>>, <<72263,72263>>,
        <<72273,72278>>, <<72281,72283>>, <<72330,72342>>, <<72344,72345>>,
        <<72752,72758>>, <<72760,72765>>, <<72767,72767>>, <<72850,72871>>,
        <<72874,72880>>, <<72882,72883>>, <<72885,72886>>, <<73009,73014>>,
        <<73018,73018>>, <<73020,73021>>, <<73023,73029>>, <<73031,73031>>,
        <<73104,73105>>, <<73109,73109>>, <<73111,73111>>, <<73459,73460>>,
        <<78896,78904>>, <<92912,92916>>, <<92976,92982>>, <<92992,92995>>,
        <<94031,94031>>, <<94095,94111>>, <<94176,94177>>, <<94179,94180>>,
        <<110576,110579>>, <<110581,110587>>, <<110589,110590>>,
        <<113821,113822>>, <<113824,113827>>, <<118528,118573>>,
        <<118576,118598>>, <<119143,119145>>, <<119155,119170>>,
        <<119173,119179>>, <<119210,119213>>, <<119362,119364>>,
        <<121344,121398>>, <<121403,121452>>, <<121461,121461>>,
        <<121476,121476>>, <<121499,121503>>, <<121505,121519>>,
        <<122880,122886>>, <<122888,122904>>, <<122907,122913>>,
        <<122915,122916>>, <<122918,122922>>, <<123184,123197>>,
        <<123566,123566>>, <<123628,123631>>, <<125136,125142>>,
        <<125252,125259>>, <<127995,127999>>, <<917505,917505>>,
        <<917536,917631>>, <<917760,917999>> })

\* the lower case of every character that has one: A to Z, the characters
\* of the segments <<first, last, step, offset>>, where every step-th code
\* point n of first..last becomes n + offset, and the two that leave the
\* table: the Kelvin sign becomes k, the dotted capital I becomes i and a
\* combining dot above
LowerOf ==
    LET segments ==
          { <<192,214,1,32>>, <<216,222,1,32>>, <<256,302,2,1>>,
            <<306,310,2,1>>, <<313,327,2,1>>, <<330,374,2,1>>,
            <<376,376,1,-121>>, <<377,381,2,1>>, <<385,385,1,210>>,
            <<386,388,2,1>>, <<390,390,1,206>>, <<391,391,1,1>>,
            <<393,394,1,205>>, <<395,395,1,1>>, <<398,398,1,79>>,
            <<399,399,1,202>>, <<400,400,1,203>>, <<401,401,1,1>>,
            <<403,403,1,205>>, <<404,404,1,207>>, <<406,406,1,211>>,
            <<407,407,1,209>>, <<408,408,1,1>>, <<412,412,1,211>>,
            <<413,413,1,213>>, <<415,415,1,214>>, <<416,420,2,1>>,
            <<422,422,1,218>>, <<423,423,1,1>>, <<425,425,1,218>>,
            <<428,428,1,1>>, <<430,430,1,218>>, <<431,431,1,1>>,
            <<433,434,1,217>>, <<435,437,2,1>>, <<439,439,1,219>>,
            <<440,440,1,1>>, <<444,444,1,1>>, <<452,452,1,2>>,
            <<453,453,1,1>>, <<455,455,1,2>>, <<456,456,1,1>>,
            <<458,458,1,2>>, <<459,475,2,1>>, <<478,494,2,1>>,
            <<497,497,1,2>>, <<498,500,2,1>>, <<502,502,1,-97>>,
            <<503,503,1,-56>>, <<504,542,2,1>>, <<544,544,1,-130>>,
            <<546,562,2,1>>, <<570,570,1,10795>>, <<571,571,1,1>>,
            <<573,573,1,-163>>, <<574,574,1,10792>>, <<577,577,1,1>>,
            <<579,579,1,-195>>, <<580,580,1,69>>, <<581,581,1,71>>,
            <<582,590,2,1>>, <<880,882,2,1>>, <<886,886,1,1>>,
            <<895,895,1,116>>, <<902,902,1,38>>, <<904,906,1,37>>,
            <<908,908,1,64>>, <<910,911,1,63>>, <<913,929,1,32>>,
            <<931,939,1,32>>, <<975,975,1,8>>, <<984,1006,2,1>>,
            <<1012,1012,1,-60>>, <<1015,1015,1,1>>, <<1017,1017,1,-7>>,
            <<1018,1018,1,1>>, <<1021,1023,1,-130>>, <<1024,1039,1,80>>,
            <<1040,1071,1,32>>, <<1120,1152,2,1>>, <<1162,1214,2,1>>,
            <<1216,1216,1,15>>, <<1217,1229,2,1>>, <<1232,1326,2,1>>,
            <<1329,1366,1,48>>, <<4256,4293,1,7264>>, <<4295,4295,1,7264>>,
            <<4301,4301,1,7264>>, <<5024,5103,1,38864>>, <<5104,5109,1,8>>,
            <<7312,7354,1,-3008>>, <<7357,7359,1,-3008>>, <<7680,7828,2,1>>,
            <<7838,7838,1,-7615>>, <<7840,7934,2,1>>, <<7944,7951,1,-8>>,
            <<7960,7965,1,-8>>, <<7976,7983,1,-8>>, <<7992,7999,1,-8>>,
            <<8008,8013,1,-8>>, <<8025,8031,2,-8>>, <<8040,8047,1,-8>>,
            <<8072,8079,1,-8>>, <<8088,8095,1,-8>>, <<8104,8111,1,-8>>,
            <<8120,8121,1,-8>>, <<8122,8123,1,-74>>, <<8124,8124,1,-9>>,
            <<8136,8139,1,-86>>, <<8140,8140,1,-9>>, <<8152,8153,1,-8>>,
            <<8154,8155,1,-100>>, <<8168,8169,1,-8>>, <<8170,8171,1,-112>>,
            <<8172,8172,1,-7>>, <<8184,8185,1,-128>>, <<8186,8187,1,-126>>,
            <<8188,8188,1,-9>>, <<8486,8486,1,-7517>>,
            <<8491,8491,1,-8262>>, <<8498,8498,1,28>>, <<8544,8559,1,16>>,
            <<8579,8579,1,1>>, <<9398,9423,1,26>>, <<11264,11311,1,48>>,
            <<11360,11360,1,1>>, <<11362,11362,1,-10743>>,
            <<11363,11363,1,-3814>>, <<11364,11364,1,-10727>>,
            <<11367,11371,2,1>>, <<11373,11373,1,-10780>>,
            <<11374,11374,1,-10749>>, <<11375,11375,1,-10783>>,
            <<11376,11376,1,-10782>>, <<11378,11378,1,1>>,
            <<11381,11381,1,1>>, <<11390,11391,1,-10815>>,
            <<11392,11490,2,1>>, <<11499,11501,2,1>>, <<11506,11506,1,1>>,
            <<42560,42604,2,1>>, <<42624,42650,2,1>>, <<42786,42798,2,1>>,
            <<42802,42862,2,1>>, <<42873,42875,2,1>>,
            <<42877,42877,1,-35332>>, <<42878,42886,2,1>>,
            <<42891,42891,1,1>>, <<42893,42893,1,-42280>>,
            <<42896,42898,2,1>>, <<42902,42920,2,1>>,
            <<42922,42922,1,-42308>>, <<42923,42923,1,-42319>>,
            <<42924,42924,1,-42315>>, <<42925,42925,1,-42305>>,
            <<42926,42926,1,-42308>>, <<42928,42928,1,-42258>>,
            <<42929,42929,1,-42282>>, <<42930,42930,1,-42261>>,
            <<42931,42931,1,928>>, <<42932,42946,2,1>>,
            <<42948,42948,1,-48>>, <<42949,42949,1,-42307>>,
            <<42950,42950,1,-35384>>, <<42951,42953,2,1>>,
            <<42960,42960,1,1>>, <<42966,42968,2,1>>, <<42997,42997,1,1>>,
            <<65313,65338,1,32>>, <<66560,66599,1,40>>,
            <<66736,66771,1,40>>, <<66928,66938,1,39>>,
            <<66940,66954,1,39>>, <<66956,66962,1,39>>,
            <<66964,66965,1,39>>, <<68736,68786,1,64>>,
            <<71840,71871,1,32>>, <<93760,93791,1,32>>,
            <<125184,125217,1,34>> }
        pairs == UNION {{<<Chr(n), Chr(n + g[4])>> :
                            n \in {k \in g[1]..g[2] : (k - g[1]) % g[3] = 0}} :
                        g \in segments}
    IN  [c \in Range(UpperSeq) \cup {p[1] : p \in pairs}
                 \cup {"U+212A", "U+0130"} |->
            IF c \in Range(UpperSeq)
            THEN <<LowerSeq[CHOOSE i \in 1..Len(UpperSeq) : UpperSeq[i] = c]>>
            ELSE IF c = "U+212A" THEN <<"k">>
            ELSE IF c = "U+0130" THEN <<"i", "U+0307">>
            ELSE <<(CHOOSE p \in pairs : p[1] = c)[2]>>]

IsDigit(c) == c \in DigitSet
IsSpace(c) == c \in SpaceSet
\* the class [a-zA-Z0-9]: ASCII letters and ASCII digits only
IsAlnum(c) ==
    c \in Range(UpperSeq) \cup Range(LowerSeq)
          \cup {"0","1","2","3","4","5","6","7","8","9"}

\* str.lower() on one character, out of context: one character, or two
LowerChar(c) == IF c \in DOMAIN LowerOf THEN LowerOf[c] ELSE <<c>>

\* the capital sigma at s[i] is final: a cased character stands before it,
\* case-ignorable characters skipped, and none stands after it
FinalSigma(s, i) ==
    LET before == {j \in 1..(i - 1) : s[j] \notin CaseIgnorable}
        after == {j \in (i + 1)..Len(s) : s[j] \notin CaseIgnorable}
    IN  /\ before # {}
        /\ s[CHOOSE j \in before : \A k \in before : k <= j] \in Cased
        /\ \/ after = {}
           \/ s[CHOOSE j \in after : \A k \in after : j <= k] \notin Cased

\* str.lower() from s[i] on: character by character, but for the capital
\* sigma U+03A3, which becomes the final sigma U+03C2 where it is final
RECURSIVE LowerFrom(_, _)
LowerFrom(s, i) ==
    IF i > Len(s) THEN <<>>
    ELSE (IF s[i] = "U+03A3" /\ FinalSigma(s, i)
          THEN <<"U+03C2">>
          ELSE LowerChar(s[i])) \o LowerFrom(s, i + 1)

\* str.lower()
Lower(s) == LowerFrom(s, 1)

\* s[from..to], empty when from > to
Slice(s, from, to) == SubSeq(s, from, to)

\* `sub in s` for Python strings
Contains(sub, s) ==
    \E p \in 0..(Len(s) - Len(sub)) :
        \A i \in 1..Len(sub) : s[p + i] = sub[i]

\* body_filter.lower() in message_body.lower()
BodyMatchesFilter(body_filter, message_body) ==
    Once({Contains(f, b) : f \in {Lower(body_filter)},
                           b \in {Lower(message_body)}})

(***************************************************************************)
(* normalize_body: the six substitutions, in the order of the source.      *)
(***************************************************************************)
\* the pattern \d{4}-\d{2}-\d{2} \d{2}:\d{2}:\d{2} matches at position p
TimestampAt(s, p) ==
    /\ p + 18 <= Len(s)
    /\ \A k \in {0,1,2,3,5,6,8,9,11,12,14,15,17,18} : IsDigit(s[p + k])
    /\ s[p + 4] = "-" /\ s[p + 7] = "-"
    /\ s[p + 10] = " "
    /\ s[p + 13] = ":" /\ s[p + 16] = ":"

RECURSIVE StripTimestampsFrom(_, _)
StripTimestampsFrom(s, p) ==
    IF p > Len(s) THEN <<>>
    ELSE IF TimestampAt(s, p) THEN StripTimestampsFrom(s, p + 19)
    ELSE <<s[p]>> \o StripTimestampsFrom(s, p + 1)

\* re.sub(r'\d{4}-\d{2}-\d{2} \d{2}:\d{2}:\d{2}', '', body)
StripTimestamps(s) == StripTimestampsFrom(s, 1)

RECURSIVE CollapseSpaceFrom(_, _)
CollapseSpaceFrom(s, p) ==
    IF p > Len(s) THEN <<>>
    ELSE IF IsSpace(s[p])
         THEN IF p > 1 /\ IsSpace(s[p - 1])
              THEN CollapseSpaceFrom(s, p + 1)
              ELSE <<" ">> \o CollapseSpaceFrom(s, p + 1)
         ELSE <<s[p]>> \o CollapseSpaceFrom(s, p + 1)

\* re.sub(r'\s+', ' ', body)
CollapseSpace(s) == CollapseSpaceFrom(s, 1)

\* the pattern http\S+ matches at position p
UrlAt(s, p) ==
    /\ p + 4 <= Len(s)
    /\ s[p] = "h" /\ s[p + 1] = "t" /\ s[p + 2] = "t" /\ s[p + 3] = "p"
    /\ ~IsSpace(s[p + 4])

\* first position at or after p holding whitespace, Len(s)+1 when none
RECURSIVE NextSpace(_, _)
NextSpace(s, p) ==
    IF p > Len(s) \/ IsSpace(s[p]) THEN p ELSE NextSpace(s, p + 1)

RECURSIVE StripUrlsFrom(_, _)
StripUrlsFrom(s, p) ==
    IF p > Len(s) THEN <<>>
    ELSE IF UrlAt(s, p) THEN StripUrlsFrom(s, NextSpace(s, p))
    ELSE <<s[p]>> \o StripUrlsFrom(s, p + 1)

\* re.sub(r'http\S+', '', body)
StripUrls(s) == StripUrlsFrom(s, 1)

\* re.sub(r'[^a-zA-Z0-9\s]', '', body)
StripSpecial(s) == SelectSeq(s, LAMBDA c : IsAlnum(c) \/ IsSpace(c))

\* first position at or after p that holds no word character
RECURSIVE WordEnd(_, _)
WordEnd(s, p) ==
    IF p > Len(s) \/ ~IsAlnum(s[p]) THEN p ELSE WordEnd(s, p + 1)

RECURSIVE StripShortWordsFrom(_, _)
StripShortWordsFrom(s, p) ==
    IF p > Len(s) THEN <<>>
    ELSE IF ~IsAlnum(s[p]) THEN <<s[p]>> \o StripShortWordsFrom(s, p + 1)
    ELSE LET e == WordEnd(s, p)
         IN  IF e - p <= 2
             THEN StripShortWordsFrom(s, e)
             ELSE Slice(s, p, e - 1) \o StripShortWordsFrom(s, e)

\* re.sub(r'\b\w{1,2}\b', '', body), on text of letters, digits and whitespace
StripShortWords(s) == StripShortWordsFrom(s, 1)

RECURSIVE LStrip(_)
LStrip(s) == IF s # <<>> /\ IsSpace(Head(s)) THEN LStrip(Tail(s)) ELSE s

RECURSIVE RStrip(_)
RStrip(s) ==
    IF s # <<>> /\ IsSpace(s[Len(s)]) THEN RStrip(Slice(s, 1, Len(s) - 1)) ELSE s

\* str.strip()
Strip(s) == Once({RStrip(l) : l \in {LStrip(s)}})

normalize_body(body) ==
    IF body = <<>> THEN <<>>
    ELSE Once({Strip(b6) :                                    \* line 54
          b6 \in {StripShortWords(b5) :                       \* line 53
          b5 \in {Lower(b4) :                                 \* line 52
          b4 \in {StripSpecial(b3) :                          \* line 51
          b3 \in {StripUrls(b2) :                             \* line 50
          b2 \in {CollapseSpace(b1) :                         \* line 49
          b1 \in {StripTimestamps(body)}}}}}}})              \* line 48

(***************************************************************************)
(* difflib.SequenceMatcher(None, a, b).ratio(): the matching blocks of     *)
(* Ratcliff/Obershelp with the autojunk heuristic, 2*M/T as the exact      *)
(* fraction <<2*M, T>>.                                                    *)
(***************************************************************************)
\* autojunk: when b has 200 characters or more, the characters that occur
\* more than len(b) // 100 + 1 times in b are left out of the index b2j
Popular(b) ==
    IF Len(b) >= 200
    THEN {c \in Range(b) :
             Cardinality({j \in 1..Len(b) : b[j] = c}) > (Len(b) \div 100) + 1}
    ELSE {}

\* length of the common run of a[i..ahi] and b[j..bhi]
RECURSIVE CommonRun(_, _, _, _, _, _)
CommonRun(a, b, i, j, ahi, bhi) ==
    IF i > ahi \/ j > bhi \/ a[i] # b[j] THEN 0
    ELSE 1 + CommonRun(a, b, i + 1, j + 1, ahi, bhi)

\* length of the common run of a[alo..i] and b[blo..j], from i and j down
RECURSIVE CommonRunBack(_, _, _, _, _, _)
CommonRunBack(a, b, i, j, alo, blo) ==
    IF i < alo \/ j < blo \/ a[i] # b[j] THEN 0
    ELSE 1 + CommonRunBack(a, b, i - 1, j - 1, alo, blo)

\* length of the common run of a[i..ahi] and b[j..bhi] over characters of
\* the index: the chain j2len of find_longest_match
RECURSIVE IndexedRun(_, _, _, _, _, _, _)
IndexedRun(a, b, pop, i, j, ahi, bhi) ==
    IF i > ahi \/ j > bhi \/ a[i] # b[j] \/ b[j] \in pop THEN 0
    ELSE 1 + IndexedRun(a, b, pop, i + 1, j + 1, ahi, bhi)

\* find_longest_match: the longest block over indexed characters, earliest
\* in a, then earliest in b ((alo, blo, 0) when there is none), extended
\* at both ends over equal characters
LongestMatch(a, b, alo, ahi, blo, bhi) ==
    LET pop == Popular(b)
        starts == (alo..ahi) \X (blo..bhi)
        size(p) == IndexedRun(a, b, pop, p[1], p[2], ahi, bhi)
    IN  Once({
          Once({
            Once({
              Once({<<i - back, j - back,
                      best + back + CommonRun(a, b, i + best, j + best, ahi, bhi)>> :
                    back \in {CommonRunBack(a, b, i - 1, j - 1, alo, blo)}}) :
              j \in {IF best = 0 THEN blo
                     ELSE CHOOSE y \in blo..bhi :
                            /\ size(<<i, y>>) = best
                            /\ \A z \in blo..(y - 1) : size(<<i, z>>) # best}}) :
            i \in {IF best = 0 THEN alo
                   ELSE CHOOSE x \in alo..ahi :
                          /\ \E y \in blo..bhi : size(<<x, y>>) = best
                          /\ \A w \in alo..(x - 1) :
                                \A y \in blo..bhi : size(<<w, y>>) # best}}) :
          best \in {IF starts = {} THEN 0
                    ELSE CHOOSE k \in 0..(ahi - alo + 1) :
                           /\ \E p \in starts : size(p) = k
                           /\ \A p \in starts : size(p) <= k}})

\* sum of the sizes of get_matching_blocks()
RECURSIVE Matches(_, _, _, _, _, _)
Matches(a, b, alo, ahi, blo, bhi) ==
    Once({IF m[3] = 0 THEN 0
          ELSE m[3] + Matches(a, b, alo, m[1] - 1, blo, m[2] - 1)
                    + Matches(a, b, m[1] + m[3], ahi, m[2] + m[3], bhi) :
          m \in {LongestMatch(a, b, alo, ahi, blo, bhi)}})

\* ratio() as <<numerator, denominator>>; 1.0 when both texts are empty
RatioOf(a, b) ==
    IF Len(a) + Len(b) = 0 THEN <<1, 1>>
    ELSE <<2 * Matches(a, b, 1, Len(a), 1, Len(b)), Len(a) + Len(b)>>

\* SequenceMatcher(None, a, b).ratio()
Ratio(a, b) == Once({RatioOf(x, y) : x \in {a}, y \in {b}})

RatioIsOne(r) == r[1] = r[2]
\* r >= pct/100 and r > pct/100, on exact fractions
RatioAtLeast(r, pct) == r[1] * 100 >= pct * r[2]
RatioAbove(r, pct) == r[1] * 100 > pct * r[2]

(***************************************************************************)
(* Configuration (agent.py lines 25-27).  The thresholds are read from     *)
(* config.ini as floats; the model holds them as percentages.              *)
(***************************************************************************)
BODY_SIMILARITY_THRESHOLD == 50
FIRST_300_CHARS_SIMILARITY_THRESHOLD == 75
HeadChars == 300

(***************************************************************************)
(* Bounds of the model.                                                    *)
(***************************************************************************)
MaxFaults == 2
MaxRuns == 2
MaxFolders == 3
MaxRetMsgs == 3
MaxDupMsgs == 3

(***************************************************************************)
(* State.                                                                  *)
(*   mail      message id -> [subject, sender, time, body]; time is        *)
(*             [day, tick], ReceivedTime.date() is its day                 *)
(*   items     folder -> the ids of folder.Items, in the store's order     *)
(*   children  folder -> folder.Folders, in the store's order              *)
(*   filters   BODY_FILTERS                                                *)
(*   file      the learned-patterns file                                   *)
(*   learned   learned_patterns of the running process                     *)
(*   pc        position of main()                                          *)
(*   stack     the call stack below main(): process_folder,                *)
(*             find_and_remove_duplicates, retain_most_recent_emails       *)
(*   run       number of the current process run                           *)
(*   faults    store failures raised so far                                *)
(*   last      history: the step just taken                                *)
(*   calls     history: the loads, the saves and the passes started in     *)
(*             this run, in order                                          *)
(*   broken    history: the folders in whose processing a failure          *)
(*             was raised in this run, with the place of the failure       *)
(*   carried   history: the patterns the previous run saved                *)
(***************************************************************************)
VARIABLES mail, items, children, filters, file, learned, pc, stack,
          run, faults, last, calls, broken, carried

vars == <<mail, items, children, filters, file, learned, pc, stack,
          run, faults, last, calls, broken, carried>>

store == <<mail, children, filters>>

NoMsg == 0
NoFolder == 0
Root == 1

\* message.ReceivedTime > other.ReceivedTime
Later(t1, t2) == t1.day > t2.day \/ (t1.day = t2.day /\ t1.tick > t2.tick)

\* the values a key holds: a str, and a datetime.date
PyStr(s) == [str |-> s]
PyDate(d) == [date |-> d]

\* key = (message.Subject, message.SenderName, message.ReceivedTime.date())
KeyOf(m) == <<PyStr(mail[m].subject), PyStr(mail[m].sender), PyDate(mail[m].time.day)>>

\* a Python dict: its items <<key, value>> in the order of insertion
DictKeys(d) == {d[i][1] : i \in 1..Len(d)}
\* d[k]
DictGet(d, k) == d[CHOOSE i \in 1..Len(d) : d[i][1] = k][2]
\* d[k] = v: a key the dict holds keeps its place
DictSet(d, k, v) ==
    IF k \in DictKeys(d)
    THEN [i \in 1..Len(d) |-> IF d[i][1] = k THEN <<k, v>> ELSE d[i]]
    ELSE Append(d, <<k, v>>)
\* dict(items): the dict a comprehension builds from the items, in order
RECURSIVE DictOf(_)
DictOf(its) ==
    IF its = <<>> THEN <<>>
    ELSE DictSet(DictOf(SubSeq(its, 1, Len(its) - 1)),
                 its[Len(its)][1], its[Len(its)][2])
\* two dicts are equal: the same keys with the same values, in any order
DictEq(a, b) ==
    /\ DictKeys(a) = DictKeys(b)
    /\ \A k \in DictKeys(a) : DictGet(a, k) = DictGet(b, k)

\* message.Delete(): the message leaves its folder
Remove(seq, m) == SelectSeq(seq, LAMBDA x : x # m)

EmptyPatterns == [duplicates |-> <<>>, non_duplicates |-> <<>>]

(***************************************************************************)
(* The learned-pattern store.  str(key) is the text of a tuple display;    *)
(* the model holds that text as the syntax tree ast.literal_eval parses    *)
(* it to: a string is a Str node, a tuple a Tuple node and a date, whose   *)
(* repr is datetime.date(y, m, d), a Call node.                            *)
(***************************************************************************)
StrNode(s) == [node |-> "Str", s |-> s]
CallNode(d) == [node |-> "Call", args |-> d]
TupleNode(elts) == [node |-> "Tuple", elts |-> elts]
BadText == [node |-> "SyntaxError"]

\* repr of a str and of a date
StrOfValue(v) == IF "date" \in DOMAIN v THEN CallNode(v.date) ELSE StrNode(v.str)
\* str(key) for a key, a tuple of strings and dates
StrOfKey(k) == TupleNode([i \in 1..Len(k) |-> StrOfValue(k[i])])
\* str((key1, key2))
StrOfPair(p) == TupleNode(<<StrOfKey(p[1]), StrOfKey(p[2])>>)

\* ast.literal_eval: "ok" with the value, or the exception it raises
RECURSIVE literal_eval(_)
literal_eval(t) ==
    CASE t.node = "Str" -> [exc |-> "ok", val |-> PyStr(t.s)]
      [] t.node = "Call" -> [exc |-> "ValueError", val |-> 0]
      [] t.node = "SyntaxError" -> [exc |-> "SyntaxError", val |-> 0]
      [] t.node = "Tuple" ->
           LET parts == [i \in 1..Len(t.elts) |-> literal_eval(t.elts[i])]
               bad == {i \in 1..Len(t.elts) : parts[i].exc # "ok"}
           IN  IF bad = {}
               THEN [exc |-> "ok",
                     val |-> [i \in 1..Len(t.elts) |-> parts[i].val]]
               ELSE LET i == CHOOSE x \in bad : \A y \in bad : x <= y
                    IN  [exc |-> parts[i].exc, val |-> 0]

Missing == [kind |-> "missing"]
\* text that is no JSON
Garbage == [kind |-> "garbage"]
\* JSON whose top level is no object: patterns.get raises AttributeError
NotObject == [kind |-> "not_object"]
\* a JSON document: two objects, each the dict from key text to value that
\* json.load returns
Doc(d, n) == [kind |-> "doc", duplicates |-> d, non_duplicates |-> n]

\* {ast.literal_eval(key): value for key, value in obj.items()}
\* the first key text that cannot be decoded raises
DecodeObject(obj) ==
    LET res == [i \in 1..Len(obj) |-> literal_eval(obj[i][1])]
        bad == {i \in 1..Len(obj) : res[i].exc # "ok"}
    IN  IF bad # {}
        THEN [exc |-> res[CHOOSE i \in bad : \A j \in bad : i <= j].exc,
              val |-> <<>>]
        ELSE [exc |-> "ok",
              val |-> DictOf([i \in 1..Len(obj) |-> <<res[i].val, obj[i][2]>>])]

\* mutant: only the JSON error is caught
LoadCatchesJsonOnly(exc) == exc = "JSONDecodeError"
\* the except clauses of load_learned_patterns (lines 85-90)
LoadCatches(exc) == exc \in {"JSONDecodeError", "ValueError", "SyntaxError", "Exception"}

\* load_learned_patterns(): [raised, patterns]
load_learned_patterns(f) ==
    LET body ==
          IF f.kind = "missing" THEN [exc |-> "ok", val |-> EmptyPatterns]
          ELSE IF f.kind = "garbage" THEN [exc |-> "JSONDecodeError", val |-> EmptyPatterns]
          ELSE IF f.kind = "not_object" THEN [exc |-> "Exception", val |-> EmptyPatterns]
          ELSE LET d == DecodeObject(f.duplicates)
                   n == DecodeObject(f.non_duplicates)
               IN  IF d.exc # "ok" THEN [exc |-> d.exc, val |-> EmptyPatterns]
                   ELSE IF n.exc # "ok" THEN [exc |-> n.exc, val |-> EmptyPatterns]
                   ELSE [exc |-> "ok",
                         val |-> [duplicates |-> d.val,
                                  non_duplicates |-> n.val]]
    IN  IF body.exc = "ok" THEN [raised |-> FALSE, patterns |-> body.val]
        ELSE IF LoadCatches(body.exc) THEN [raised |-> FALSE, patterns |-> EmptyPatterns]
        ELSE [raised |-> TRUE, patterns |-> EmptyPatterns]

\* save_learned_patterns(patterns): the document written to the file
save_learned_patterns(p) ==
    Doc(DictOf([i \in 1..Len(p.duplicates) |->
                   <<StrOfKey(p.duplicates[i][1]), p.duplicates[i][2]>>]),
        DictOf([i \in 1..Len(p.non_duplicates) |->
                   <<StrOfPair(p.non_duplicates[i][1]), p.non_duplicates[i][2]>>]))

(***************************************************************************)
(* Call stack.  A frame is one activation of process_folder ("proc"),      *)
(* find_and_remove_duplicates ("dup") or retain_most_recent_emails ("ret") *)
(* with its local variables.                                               *)
(***************************************************************************)
ProcFrame(f) == [fn |-> "proc", folder |-> f, pc |-> "entry", i |-> 1]

\* seen, duplicates, compared_pairs (lines 110-113).  pc is the place of the
\* call: "entry" before line 108; "scan" inside the try, before the store
\* yields the message at position idx (folder.Items and GetFirst of lines
\* 110-115 for the first, GetNext for the others) or nothing; "prompt" in
\* input() of line 148; "replace" after the write of line 153, 163 or 173
\* and before the store reads of the assignment to seen[key] that follows;
\* "delete" in the loop of lines 194-197.  msgs is what folder.Items holds
\* while the messages are scanned.  kept is history: the
\* messages of the NotDuplicate verdicts of this pass; judged is history:
\* the candidates of those verdicts; scanned is history:
\* the number of iterations of the while loop that have ended; asked is
\* history: the candidates the prompt of line 148 was shown for; skipped is
\* history: the candidates passed over at lines 121-127; ratios is history:
\* the pairs of keys line 129 computed a ratio for, in order; known0 is
\* history: learned_patterns['non_duplicates'] as the call received it
DupFrame(f) ==
    [fn |-> "dup", folder |-> f, pc |-> "entry", msgs |-> <<>>, idx |-> 1,
     seen |-> <<>>, dups |-> <<>>, compared |-> {}, kept |-> {}, judged |-> {},
     scanned |-> 0, asked |-> <<>>, skipped |-> {}, ratios |-> <<>>, known0 |-> {}]

\* most_recent_messages, messages_to_delete (lines 205-207).  pc is the place
\* of the call: "entry" before line 203; "scan" inside the try, before the
\* store yields the message at position idx (folder.Items and GetFirst of
\* lines 205-209 for the first, GetNext for the others) or nothing; "delete"
\* in the loop of lines 232-238; "subs" in the loop of lines 241-243
RetFrame(f) ==
    [fn |-> "ret", folder |-> f, pc |-> "entry", msgs |-> <<>>, idx |-> 1,
     recent |-> <<>>, todel |-> <<>>, i |-> 1, scanned |-> 0]

Top == stack[Len(stack)]
Pop(stk) == SubSeq(stk, 1, Len(stk) - 1)
SetTop(stk, fr) == [stk EXCEPT ![Len(stk)] = fr]
Push(stk, fr) == Append(stk, fr)

\* an exception leaves the top frame's function: the caller's call is inside
\* the caller's try.  The except clause of retain_most_recent_emails (lines
\* 244-245) logs the exception and the function returns; the except clause
\* of process_folder (lines 256-257) reads folder.Name first
Raise(stk) ==
    IF Len(stk) < 2 THEN <<>>
    ELSE IF stk[Len(stk) - 1].fn = "proc"
         THEN SubSeq(stk, 1, Len(stk) - 2)
                 \o <<[stk[Len(stk) - 1] EXCEPT !.pc = "handler"]>>
         ELSE SubSeq(stk, 1, Len(stk) - 2)
\* main() catches what leaves process_folder(inbox) (line 273)
\* mutant: main() goes on to line 270 after an exception of line 269
PcAfterRaiseGoesOn == pc

\* an exception that leaves process_folder(inbox) is caught at line 273
PcAfterRaise == IF Len(stack) = 1 /\ pc = "walk" THEN "done" ELSE pc

At(fn, where) == stack # <<>> /\ Top.fn = fn /\ Top.pc = where

\* the step just taken; of a pass of find_and_remove_duplicates that has
\* ended, marked is its list duplicates (lines 133, 150), kept and judged
\* are those of its frame, and reps are the messages its seen entries were
\* made from
Event(op, f, m, rep, known, before) ==
    [op |-> op, folder |-> f, m |-> m, rep |-> rep, known |-> known,
     before |-> before, kept |-> {}, marked |-> <<>>, judged |-> {}, reps |-> {}]
Step(op) == Event(op, IF stack = <<>> THEN NoFolder ELSE Top.folder,
                  NoMsg, NoMsg, FALSE, <<>>)

CanFail == faults < MaxFaults
Fault(place) ==
    /\ faults' = faults + 1
    /\ broken' = broken \cup {<<Top.folder, place>>}

(***************************************************************************)
(* process_folder (lines 247-257).                                         *)
(***************************************************************************)
\* line 249, outside the try
ProcEntry ==
    /\ At("proc", "entry")
    /\ stack' = SetTop(stack, [Top EXCEPT !.pc = "dup"])
    /\ last' = Step("proc_entry")
    /\ UNCHANGED <<store, items, file, learned, pc, run, faults, calls, broken, carried>>

\* line 249 raises: the exception leaves process_folder
ProcEntryFail ==
    /\ At("proc", "entry")
    /\ CanFail
    /\ Fault("proc_entry")
    /\ stack' = Raise(stack)
    /\ pc' = PcAfterRaise
    /\ last' = Step("proc_entry_fail")
    /\ UNCHANGED <<store, items, file, learned, run, calls, carried>>

\* line 251
ProcCallDup ==
    /\ At("proc", "dup")
    /\ stack' = Push(SetTop(stack, [Top EXCEPT !.pc = "ret"]), DupFrame(Top.folder))
    /\ last' = Step("proc_call_dup")
    /\ UNCHANGED <<store, items, file, learned, pc, run, faults, calls, broken, carried>>

\* line 252
ProcCallRet ==
    /\ At("proc", "ret")
    /\ stack' = Push(SetTop(stack, [Top EXCEPT !.pc = "subs"]), RetFrame(Top.folder))
    /\ last' = Step("proc_call_ret")
    /\ UNCHANGED <<store, items, file, learned, pc, run, faults, calls, broken, carried>>

\* mutant: process_folder does not return after its last subfolder
ProcLoopNoReturn ==
    /\ At("proc", "subs")
    /\ IF Top.i <= Len(children[Top.folder])
       THEN stack' = Push(SetTop(stack, [Top EXCEPT !.i = @ + 1]),
                          ProcFrame(children[Top.folder][Top.i]))
       ELSE stack' = stack
    /\ last' = Step("proc_loop")
    /\ UNCHANGED <<store, items, file, learned, pc, run, faults, calls, broken, carried>>

\* lines 253-255: the next subfolder, or the return after the last
ProcLoop ==
    /\ At("proc", "subs")
    /\ IF Top.i <= Len(children[Top.folder])
       THEN stack' = Push(SetTop(stack, [Top EXCEPT !.i = @ + 1]),
                          ProcFrame(children[Top.folder][Top.i]))
       ELSE stack' = Pop(stack)
    /\ last' = Step("proc_loop")
    /\ UNCHANGED <<store, items, file, learned, pc, run, faults, calls, broken, carried>>

\* folder.Folders or its enumeration raises: caught at line 256
ProcSubsFail ==
    /\ At("proc", "subs")
    /\ CanFail
    /\ Fault("proc_subs")
    /\ stack' = SetTop(stack, [Top EXCEPT !.pc = "handler"])
    /\ last' = Step("proc_subs_fail")
    /\ UNCHANGED <<store, items, file, learned, pc, run, calls, carried>>

\* line 257: the exception is logged with folder.Name, process_folder returns
ProcHandled ==
    /\ At("proc", "handler")
    /\ stack' = Pop(stack)
    /\ last' = Step("proc_handled")
    /\ UNCHANGED <<store, items, file, learned, pc, run, faults, calls, broken, carried>>

\* line 257 raises, in folder.Name: the exception leaves process_folder
ProcHandlerFail ==
    /\ At("proc", "handler")
    /\ CanFail
    /\ Fault("proc_handler")
    /\ stack' = Raise(stack)
    /\ pc' = PcAfterRaise
    /\ last' = Step("proc_handler_fail")
    /\ UNCHANGED <<store, items, file, learned, run, calls, carried>>

(***************************************************************************)
(* find_and_remove_duplicates (lines 106-199).                             *)
(***************************************************************************)
\* line 108: folder.Name is printed and the try is entered
DupEntry ==
    /\ At("dup", "entry")
    /\ stack' = SetTop(stack, [Top EXCEPT !.pc = "scan",
                                          !.msgs = items[Top.folder],
                                          !.known0 = DictKeys(learned.non_duplicates)])
    /\ calls' = Append(calls, <<"dup", Top.folder>>)
    /\ last' = Step("dup_entry")
    /\ UNCHANGED <<store, items, file, learned, pc, run, faults, broken, carried>>

\* line 108, outside the try, raises
DupEntryFail ==
    /\ At("dup", "entry")
    /\ CanFail
    /\ Fault("dup_entry")
    /\ stack' = Raise(stack)
    /\ pc' = PcAfterRaise
    /\ last' = Step("dup_entry_fail")
    /\ UNCHANGED <<store, items, file, learned, run, calls, carried>>

\* the message of this iteration, its key and normalized body (lines 117-118)
DupMsg == Top.msgs[Top.idx]
DupKey == KeyOf(DupMsg)
DupBody == normalize_body(mail[DupMsg].body)
\* seen[key]
DupRep == Top.seen[DupKey]

PairIn(k1, k2, pairs) == <<k1, k2>> \in pairs \/ <<k2, k1>> \in pairs

\* line 120
DupSeen == DupKey \in DOMAIN Top.seen
\* mutant: the test of line 121 missing
DupComparedNever == FALSE
\* line 121
DupCompared == PairIn(DupKey, DupRep.key, Top.compared)
\* mutant: the test of line 125 missing
DupLearnedIgnored == FALSE
\* line 125
DupLearned == PairIn(DupKey, DupRep.key, DictKeys(learned.non_duplicates))
\* line 129
DupRatio == Ratio(DupRep.body, DupBody)

\* text[:300]
Prefix(text) == SubSeq(text, 1, IF Len(text) < HeadChars THEN Len(text) ELSE HeadChars)

\* are_bodies_similar (lines 59-69): the first component of its result
are_bodies_similar(body1, body2, threshold) ==
    IF body1 = <<>> \/ body2 = <<>> THEN FALSE
    ELSE RatioAbove(Ratio(body1, body2), threshold)

\* mutant: the result of the first-300 check is not looked at
HeadSimilarAlways == TRUE
\* lines 136-137
HeadSimilar ==
    are_bodies_similar(Prefix(DupRep.body), Prefix(DupBody),
                       FIRST_300_CHARS_SIMILARITY_THRESHOLD)

\* the value stored in seen[key] (lines 154-161, 164-171, 174-181, 183-190);
\* rep is history: the message the entry was made from
SeenEntry(m) ==
    [folder |-> Top.folder, subject |-> mail[m].subject, sender |-> mail[m].sender,
     received_time |-> mail[m].time, body |-> normalize_body(mail[m].body),
     key |-> KeyOf(m), rep |-> m]

DupScanning == At("dup", "scan") /\ Top.idx <= Len(Top.msgs)
\* lines 129-130 are reached
DupComparing == DupScanning /\ DupSeen /\ ~DupCompared /\ ~DupLearned
\* line 132
DupIsIdentical == RatioIsOne(DupRatio)
\* line 135
DupInBand == ~RatioIsOne(DupRatio) /\ RatioAtLeast(DupRatio, BODY_SIMILARITY_THRESHOLD)

DupEvent(op) ==
    Event(op, Top.folder, DupMsg, IF DupSeen THEN DupRep.rep ELSE NoMsg,
          DupSeen /\ PairIn(DupKey, DupRep.key, DictKeys(learned.non_duplicates)), <<>>)

\* the iteration is over: the scan is before the next call of GetNext
\* (lines 122, 126, 192)
DupAdvance(fr) == [fr EXCEPT !.pc = "scan", !.idx = @ + 1, !.scanned = @ + 1]

\* lines 129-130: the ratio is computed and the pair is noted as compared
Compare(fr) ==
    [fr EXCEPT !.compared = @ \cup {<<DupKey, DupRep.key>>},
               !.ratios = Append(@, <<DupKey, DupRep.key>>)]

\* mutant: the original is listed for deletion in place of the candidate
MarkDuplicateOriginal(fr) == [fr EXCEPT !.dups = Append(@, DupRep.rep)]
\* lines 133 and 150
MarkDuplicate(fr) == [fr EXCEPT !.dups = Append(@, DupMsg)]
\* lines 134 and 151
RecordDuplicate(lp) == [lp EXCEPT !.duplicates = DictSet(@, DupKey, DupBody)]

\* lines 153, 163 and 173
RecordNotDuplicate(lp) ==
    [lp EXCEPT !.non_duplicates = DictSet(@, <<DupKey, DupRep.key>>, TRUE)]
\* the verdict NotDuplicate is on record; the assignment to seen[key] follows
Verdict(fr) ==
    [fr EXCEPT !.pc = "replace",
               !.kept = @ \cup {DupMsg, DupRep.rep},
               !.judged = @ \cup {DupMsg}]
\* mutant: seen[key] is left as it was
MarkNotDuplicateStale(fr) == fr
\* lines 154-161, 164-171 and 174-181
MarkNotDuplicate(fr) == [fr EXCEPT !.seen = (DupKey :> SeenEntry(DupMsg)) @@ @]

\* lines 182-190: the first message of its key
DupNew ==
    /\ DupScanning /\ ~DupSeen
    /\ stack' = SetTop(stack, DupAdvance([Top EXCEPT
                          !.seen = (DupKey :> SeenEntry(DupMsg)) @@ @]))
    /\ last' = DupEvent("dup_new")
    /\ UNCHANGED <<store, items, file, learned, pc, run, faults, calls, broken, carried>>

\* continue: the candidate is passed over
Skip(fr) == [fr EXCEPT !.skipped = @ \cup {DupMsg}]

\* mutant: the candidate passed over is listed for deletion
DupSkipComparedMarks ==
    /\ DupScanning /\ DupSeen /\ DupCompared
    /\ stack' = SetTop(stack, DupAdvance(Skip([Top EXCEPT !.dups = Append(@, DupMsg)])))
    /\ last' = DupEvent("dup_skip_compared")
    /\ UNCHANGED <<store, items, file, learned, pc, run, faults, calls, broken, carried>>

\* lines 121-123
DupSkipCompared ==
    /\ DupScanning /\ DupSeen /\ DupCompared
    /\ stack' = SetTop(stack, DupAdvance(Skip(Top)))
    /\ last' = DupEvent("dup_skip_compared")
    /\ UNCHANGED <<store, items, file, learned, pc, run, faults, calls, broken, carried>>

\* lines 125-127
DupSkipLearned ==
    /\ DupScanning /\ DupSeen /\ ~DupCompared /\ DupLearned
    /\ stack' = SetTop(stack, DupAdvance(Skip(Top)))
    /\ last' = DupEvent("dup_skip_learned")
    /\ UNCHANGED <<store, items, file, learned, pc, run, faults, calls, broken, carried>>

\* lines 129-134
DupIdentical ==
    /\ DupComparing /\ DupIsIdentical
    /\ stack' = SetTop(stack, DupAdvance(MarkDuplicate(Compare(Top))))
    /\ learned' = RecordDuplicate(learned)
    /\ last' = DupEvent("dup_identical")
    /\ UNCHANGED <<store, items, file, pc, run, faults, calls, broken, carried>>

\* line 148: input() is called for the candidate
Prompt(fr) == [fr EXCEPT !.pc = "prompt", !.asked = Append(@, DupMsg)]

\* lines 129-148: the ratio lies in the band and the first-300 check passed;
\* the table is printed and input() waits for the operator
DupPrompt ==
    /\ DupComparing /\ DupInBand /\ HeadSimilar
    /\ stack' = SetTop(stack, Prompt(Compare(Top)))
    /\ last' = DupEvent("dup_prompt")
    /\ UNCHANGED <<store, items, file, learned, pc, run, faults, calls, broken, carried>>

\* lines 148-151: the operator answers y
DupAccept ==
    /\ At("dup", "prompt")
    /\ stack' = SetTop(stack, DupAdvance(MarkDuplicate(Top)))
    /\ learned' = RecordDuplicate(learned)
    /\ last' = DupEvent("dup_accept")
    /\ UNCHANGED <<store, items, file, pc, run, faults, calls, broken, carried>>

\* lines 148-149 and 152-153: the operator answers anything else
DupDecline ==
    /\ At("dup", "prompt")
    /\ stack' = SetTop(stack, Verdict(Top))
    /\ learned' = RecordNotDuplicate(learned)
    /\ last' = DupEvent("dup_decline")
    /\ UNCHANGED <<store, items, file, pc, run, faults, calls, broken, carried>>

\* lines 129-137 and 162-163: the first-300 check failed
DupHeadFail ==
    /\ DupComparing /\ DupInBand /\ ~HeadSimilar
    /\ stack' = SetTop(stack, Verdict(Compare(Top)))
    /\ learned' = RecordNotDuplicate(learned)
    /\ last' = DupEvent("dup_head_fail")
    /\ UNCHANGED <<store, items, file, pc, run, faults, calls, broken, carried>>

\* lines 129-135 and 172-173: the ratio is below the band
DupBelow ==
    /\ DupComparing /\ ~DupIsIdentical /\ ~DupInBand
    /\ stack' = SetTop(stack, Verdict(Compare(Top)))
    /\ learned' = RecordNotDuplicate(learned)
    /\ last' = DupEvent("dup_below")
    /\ UNCHANGED <<store, items, file, pc, run, faults, calls, broken, carried>>

\* lines 154-161, 164-171 and 174-181: folder.Name and the candidate's
\* properties are read and seen[key] is assigned
DupReplace ==
    /\ At("dup", "replace")
    /\ stack' = SetTop(stack, DupAdvance(MarkNotDuplicate(Top)))
    /\ last' = DupEvent("dup_replace")
    /\ UNCHANGED <<store, items, file, learned, pc, run, faults, calls, broken, carried>>

\* lines 115-116 and 192: the store yields nothing, the while loop ends and
\* the deletions follow
DupScanEnd ==
    /\ At("dup", "scan") /\ Top.idx > Len(Top.msgs)
    /\ stack' = SetTop(stack, [Top EXCEPT !.pc = "delete", !.idx = 1])
    /\ last' = Step("dup_scan_end")
    /\ UNCHANGED <<store, items, file, learned, pc, run, faults, calls, broken, carried>>

\* lines 194-197: duplicate.Delete()
DupDelete ==
    /\ At("dup", "delete") /\ Top.idx <= Len(Top.dups)
    /\ items' = [items EXCEPT ![Top.folder] = Remove(@, Top.dups[Top.idx])]
    /\ stack' = SetTop(stack, [Top EXCEPT !.idx = @ + 1])
    /\ last' = Event("dup_delete", Top.folder, Top.dups[Top.idx], NoMsg, FALSE, <<>>)
    /\ UNCHANGED <<store, file, learned, pc, run, faults, calls, broken, carried>>

\* the pass ends with step op: what it leaves behind
Ended(op, m) ==
    [Event(op, Top.folder, m, NoMsg, FALSE, Top.msgs)
        EXCEPT !.kept = Top.kept, !.marked = Top.dups, !.judged = Top.judged,
               !.reps = {Top.seen[k].rep : k \in DOMAIN Top.seen}]

\* the pass returns after its last deletion
DupReturn ==
    /\ At("dup", "delete") /\ Top.idx > Len(Top.dups)
    /\ stack' = Pop(stack)
    /\ last' = Ended("dup_done", NoMsg)
    /\ UNCHANGED <<store, items, file, learned, pc, run, faults, calls, broken, carried>>

\* a call inside the try raises: folder.Items (line 110), GetFirst (115) or
\* GetNext (122, 126, 192), also when the folder is empty or the last message
\* has been classified; a property of the message or of the folder (117-118,
\* 140-143); input() (148); a read of the assignment to seen[key] that follows
\* the write of line 153, 163 or 173 (155-158, 165-168, 175-178); Delete or a
\* property of the message to delete (195-197).  The exception is caught at
\* line 198 and the pass ends; what was written to learned_patterns stays.
\* Of a pass that ends between the write and the assignment to seen[key], m
\* is the candidate of the verdict
DupFail ==
    /\ \/ At("dup", "scan")
       \/ At("dup", "prompt")
       \/ At("dup", "replace")
       \/ At("dup", "delete") /\ Top.idx <= Len(Top.dups)
    /\ CanFail
    /\ Fault("dup")
    /\ stack' = Pop(stack)
    /\ last' = Ended("dup_fail", IF Top.pc = "replace" THEN DupMsg ELSE NoMsg)
    /\ UNCHANGED <<store, items, file, learned, pc, run, calls, carried>>

(***************************************************************************)
(* retain_most_recent_emails (lines 201-245).                              *)
(***************************************************************************)
\* the filters of BODY_FILTERS the body contains, by position
MatchingFilters(body) ==
    {i \in 1..Len(filters) : BodyMatchesFilter(filters[i], body)}

\* lines 221-229: the first filter in BODY_FILTERS order the body contains,
\* 0 when it contains none (lines 213-220)
FirstFilter(body) ==
    IF MatchingFilters(body) = {} THEN 0
    ELSE CHOOSE i \in MatchingFilters(body) : \A j \in MatchingFilters(body) : i <= j

\* line 203: folder.Name is printed and the try is entered
RetEntry ==
    /\ At("ret", "entry")
    /\ stack' = SetTop(stack, [Top EXCEPT !.pc = "scan", !.msgs = items[Top.folder]])
    /\ calls' = Append(calls, <<"ret", Top.folder>>)
    /\ last' = Step("ret_entry")
    /\ UNCHANGED <<store, items, file, learned, pc, run, faults, broken, carried>>

\* line 203, outside the try, raises
RetEntryFail ==
    /\ At("ret", "entry")
    /\ CanFail
    /\ Fault(IF Len(stack) >= 2 /\ stack[Len(stack) - 1].fn = "ret"
             THEN "ret_entry_nested" ELSE "ret_entry")
    /\ stack' = Raise(stack)
    /\ pc' = PcAfterRaise
    /\ last' = Step("ret_entry_fail")
    /\ UNCHANGED <<store, items, file, learned, run, calls, carried>>

RetScanning == At("ret", "scan") /\ Top.idx <= Len(Top.msgs)
RetMsg == Top.msgs[Top.idx]
\* mutant: the last filter the body contains is taken
RetFilterLast ==
    filters[CHOOSE i \in MatchingFilters(mail[RetMsg].body) :
               \A j \in MatchingFilters(mail[RetMsg].body) : j <= i]
\* the key of most_recent_messages this message competes for
RetFilter == filters[FirstFilter(mail[RetMsg].body)]
RetMatches == FirstFilter(mail[RetMsg].body) # 0
\* mutant: the comparison of line 223 reversed
RetIsNewerReversed == Later(mail[Top.recent[RetFilter]].time, mail[RetMsg].time)
\* mutant: the comparison of line 223 as >=
RetIsNewerOrEqual == ~Later(mail[Top.recent[RetFilter]].time, mail[RetMsg].time)
\* line 223, second operand
RetIsNewer == Later(mail[RetMsg].time, mail[Top.recent[RetFilter]].time)

\* the iteration is over: the scan is before the call of GetNext (line 230)
RetAdvance(fr) == [fr EXCEPT !.idx = @ + 1, !.scanned = @ + 1]
RetEvent(op) ==
    Event(op, Top.folder, RetMsg,
          IF RetMatches /\ RetFilter \in DOMAIN Top.recent
          THEN Top.recent[RetFilter] ELSE NoMsg, FALSE, <<>>)

\* mutant: a message that contains no filter is listed for deletion
RetNoMatchListed ==
    /\ RetScanning /\ ~RetMatches
    /\ stack' = SetTop(stack, RetAdvance([Top EXCEPT !.todel = Append(@, RetMsg)]))
    /\ last' = RetEvent("ret_no_match")
    /\ UNCHANGED <<store, items, file, learned, pc, run, faults, calls, broken, carried>>

\* lines 213-220: no filter matches
RetNoMatch ==
    /\ RetScanning /\ ~RetMatches
    /\ stack' = SetTop(stack, RetAdvance(Top))
    /\ last' = RetEvent("ret_no_match")
    /\ UNCHANGED <<store, items, file, learned, pc, run, faults, calls, broken, carried>>

\* lines 223 and 226: the first message of its filter
RetFirst ==
    /\ RetScanning /\ RetMatches /\ RetFilter \notin DOMAIN Top.recent
    /\ stack' = SetTop(stack, RetAdvance([Top EXCEPT
                          !.recent = (RetFilter :> RetMsg) @@ @]))
    /\ last' = RetEvent("ret_first")
    /\ UNCHANGED <<store, items, file, learned, pc, run, faults, calls, broken, carried>>

\* mutant: line 225 missing, the superseded message is not listed
RetNewerForgets ==
    /\ RetScanning /\ RetMatches /\ RetFilter \in DOMAIN Top.recent
    /\ RetIsNewer
    /\ stack' = SetTop(stack, RetAdvance([Top EXCEPT
                          !.recent = (RetFilter :> RetMsg) @@ @]))
    /\ last' = RetEvent("ret_newer")
    /\ UNCHANGED <<store, items, file, learned, pc, run, faults, calls, broken, carried>>

\* mutant: the superseded message is deleted at once, during the scan
RetNewerEager ==
    /\ RetScanning /\ RetMatches /\ RetFilter \in DOMAIN Top.recent
    /\ RetIsNewer
    /\ items' = [items EXCEPT ![Top.folder] = Remove(@, Top.recent[RetFilter])]
    /\ stack' = SetTop(stack, RetAdvance([Top EXCEPT
                          !.recent = (RetFilter :> RetMsg) @@ @]))
    /\ last' = RetEvent("ret_newer")
    /\ UNCHANGED <<store, file, learned, pc, run, faults, calls, broken, carried>>

\* lines 223-226: the message supersedes the most recent one
RetNewer ==
    /\ RetScanning /\ RetMatches /\ RetFilter \in DOMAIN Top.recent
    /\ RetIsNewer
    /\ stack' = SetTop(stack, RetAdvance([Top EXCEPT
                          !.todel = Append(@, Top.recent[RetFilter]),
                          !.recent = (RetFilter :> RetMsg) @@ @]))
    /\ last' = RetEvent("ret_newer")
    /\ UNCHANGED <<store, items, file, learned, pc, run, faults, calls, broken, carried>>

\* mutant: line 228 missing, the older message is not listed
RetOlderKept ==
    /\ RetScanning /\ RetMatches /\ RetFilter \in DOMAIN Top.recent
    /\ ~RetIsNewer
    /\ stack' = SetTop(stack, RetAdvance(Top))
    /\ last' = RetEvent("ret_older")
    /\ UNCHANGED <<store, items, file, learned, pc, run, faults, calls, broken, carried>>

\* lines 227-228
RetOlder ==
    /\ RetScanning /\ RetMatches /\ RetFilter \in DOMAIN Top.recent
    /\ ~RetIsNewer
    /\ stack' = SetTop(stack, RetAdvance([Top EXCEPT !.todel = Append(@, RetMsg)]))
    /\ last' = RetEvent("ret_older")
    /\ UNCHANGED <<store, items, file, learned, pc, run, faults, calls, broken, carried>>

\* lines 209-210 and 230: the store yields nothing, the while loop ends and
\* the deletions follow
RetScanEnd ==
    /\ At("ret", "scan") /\ Top.idx > Len(Top.msgs)
    /\ stack' = SetTop(stack, [Top EXCEPT !.pc = "delete", !.idx = 1])
    /\ last' = Step("ret_scan_end")
    /\ UNCHANGED <<store, items, file, learned, pc, run, faults, calls, broken, carried>>

\* lines 232-238: Delete() on a listed message that contains a filter
RetDelete ==
    /\ At("ret", "delete") /\ Top.idx <= Len(Top.todel)
    /\ items' = [items EXCEPT ![Top.folder] =
                   IF MatchingFilters(mail[Top.todel[Top.idx]].body) # {}
                   THEN Remove(@, Top.todel[Top.idx]) ELSE @]
    /\ stack' = SetTop(stack, [Top EXCEPT !.idx = @ + 1])
    /\ last' = Event("ret_delete", Top.folder, Top.todel[Top.idx], NoMsg, FALSE, <<>>)
    /\ UNCHANGED <<store, file, learned, pc, run, faults, calls, broken, carried>>

\* line 241: the folder's own messages are done, its subfolders follow
RetDone ==
    /\ At("ret", "delete") /\ Top.idx > Len(Top.todel)
    /\ stack' = SetTop(stack, [Top EXCEPT !.pc = "subs", !.i = 1])
    /\ last' = Event("ret_done", Top.folder, NoMsg, NoMsg, FALSE, Top.msgs)
    /\ UNCHANGED <<store, items, file, learned, pc, run, faults, calls, broken, carried>>

\* mutant: the pass over a subfolder starts from its parent's most-recent
\* entries
RetLoopShared ==
    /\ At("ret", "subs")
    /\ IF Top.i <= Len(children[Top.folder])
       THEN stack' = Push(SetTop(stack, [Top EXCEPT !.i = @ + 1]),
                          [RetFrame(children[Top.folder][Top.i])
                              EXCEPT !.recent = Top.recent])
       ELSE stack' = Pop(stack)
    /\ last' = Step("ret_loop")
    /\ UNCHANGED <<store, items, file, learned, pc, run, faults, calls, broken, carried>>

\* lines 242-243: the next subfolder, or the return after the last
RetLoop ==
    /\ At("ret", "subs")
    /\ IF Top.i <= Len(children[Top.folder])
       THEN stack' = Push(SetTop(stack, [Top EXCEPT !.i = @ + 1]),
                          RetFrame(children[Top.folder][Top.i]))
       ELSE stack' = Pop(stack)
    /\ last' = Step("ret_loop")
    /\ UNCHANGED <<store, items, file, learned, pc, run, faults, calls, broken, carried>>

\* a store call inside the try raises while the folder's messages are
\* scanned or deleted: folder.Items (line 205), GetFirst (209) or GetNext
\* (230), also when the folder is empty or the last message has been
\* classified; a property of the message (211, 223); a property of the
\* message to delete or Delete (234-237).  Caught at line 244
RetFail ==
    /\ \/ At("ret", "scan")
       \/ At("ret", "delete") /\ Top.idx <= Len(Top.todel)
    /\ CanFail
    /\ Fault("ret")
    /\ stack' = Pop(stack)
    /\ last' = Step("ret_fail")
    /\ UNCHANGED <<store, items, file, learned, pc, run, calls, carried>>

\* folder.Folders or its enumeration raises (lines 241-242): caught at line 244
RetSubsFail ==
    /\ At("ret", "subs")
    /\ CanFail
    /\ Fault("ret_subs")
    /\ stack' = Pop(stack)
    /\ last' = Step("ret_subs_fail")
    /\ UNCHANGED <<store, items, file, learned, pc, run, calls, carried>>

(***************************************************************************)
(* main (lines 259-274) and connect_to_outlook (lines 29-40).              *)
(***************************************************************************)
\* line 263: the inbox is returned
Connect ==
    /\ pc = "connect"
    /\ pc' = "load"
    /\ last' = Step("connect")
    /\ UNCHANGED <<store, items, file, learned, stack, run, faults, calls, broken, carried>>

\* mutant: main() goes on without an inbox
ConnectFailGoesOn ==
    /\ pc = "connect"
    /\ CanFail
    /\ faults' = faults + 1
    /\ pc' = "load"
    /\ last' = Step("connect_fail")
    /\ UNCHANGED <<store, items, file, learned, stack, run, calls, broken, carried>>

\* lines 37-40 and 264-266: no inbox, sys.exit(1)
ConnectFail ==
    /\ pc = "connect"
    /\ CanFail
    /\ faults' = faults + 1
    /\ pc' = "exit"
    /\ last' = Step("connect_fail")
    /\ UNCHANGED <<store, items, file, learned, stack, run, calls, broken, carried>>

\* lines 268-269
Load ==
    /\ pc = "load"
    /\ LET r == load_learned_patterns(file)
       IN  IF r.raised
           THEN /\ pc' = "done"
                /\ UNCHANGED <<learned, stack>>
           ELSE /\ learned' = r.patterns
                /\ pc' = "walk"
                /\ stack' = <<ProcFrame(Root)>>
    /\ calls' = Append(calls, <<"load", NoFolder>>)
    /\ last' = Step("load")
    /\ UNCHANGED <<store, items, file, run, faults, broken, carried>>

\* line 270
Save ==
    /\ pc = "walk" /\ stack = <<>>
    /\ file' = save_learned_patterns(learned)
    /\ pc' = "done"
    /\ calls' = Append(calls, <<"save", NoFolder>>)
    /\ last' = Step("save")
    /\ UNCHANGED <<store, items, learned, stack, run, faults, broken, carried>>

\* the program is started again: a new process on the same store and file
NextRun ==
    /\ pc = "done" /\ run < MaxRuns
    /\ run' = run + 1
    /\ pc' = "connect"
    /\ learned' = EmptyPatterns
    /\ carried' = IF last.op = "save" THEN learned ELSE EmptyPatterns
    /\ calls' = <<>>
    /\ broken' = {}
    /\ last' = Step("start")
    /\ UNCHANGED <<store, items, file, stack, faults>>

(***************************************************************************)
(* The mailboxes the runs start from.                                      *)
(***************************************************************************)
BodyX == <<"a", "b", "c">>
BodyU == <<"A", "b", "c", "!">>
BodyY == <<"a", "b", "c", "d">>
BodyZ == <<"a", "b", "d">>
BodyW == <<"x", "y", "z">>
BodyE == <<"a", "b">>
BodyV == <<"x", "B", "C">>
BodyQ == <<"a", "b", "c", "x">>
FilterAB == <<"a", "b">>
FilterBC == <<"B", "c">>

Msg(subject, sender, day, tick, body) ==
    [subject |-> subject, sender |-> sender,
     time |-> [day |-> day, tick |-> tick], body |-> body]

\* the elements of a set of numbers in increasing order
RECURSIVE Sorted(_)
Sorted(S) ==
    IF S = {} THEN <<>>
    ELSE LET x == CHOOSE y \in S : \A z \in S : y <= z
         IN  <<x>> \o Sorted(S \ {x})

Folders == 1..MaxFolders
\* every tree on the folders with the inbox as root
Trees ==
    {[f \in Folders |-> Sorted({c \in Folders : c > 1 /\ parent[c] = f})] :
        parent \in {q \in [2..MaxFolders -> Folders] :
                       \A c \in 2..MaxFolders : q[c] < c}}

\* what one folder may hold in a run of main(): all messages share subject,
\* sender and day
FolderMenu ==
    { <<>>,
      <<Msg("s", "a", 1, 1, BodyX), Msg("s", "a", 1, 2, BodyU)>>,
      <<Msg("s", "a", 1, 2, BodyX), Msg("s", "a", 1, 1, BodyW)>>,
      <<Msg("s", "a", 1, 2, BodyY), Msg("s", "a", 1, 1, BodyX)>>,
      <<Msg("s", "a", 1, 1, BodyX), Msg("s", "a", 1, 2, BodyZ),
        Msg("s", "a", 1, 3, BodyX)>> }

MenuWidth == 3
\* the id of the k-th message of folder f
IdOf(f, k) == (f - 1) * MenuWidth + k

NoEvent == Event("none", NoFolder, NoMsg, NoMsg, FALSE, <<>>)

\* main() is started on a mailbox, with no learned-patterns file yet
InitOn(trees, contents) ==
    /\ children \in trees
    /\ \E content \in contents :
         /\ mail = [id \in 1..(MaxFolders * MenuWidth) |->
                      LET f == ((id - 1) \div MenuWidth) + 1
                          k == ((id - 1) % MenuWidth) + 1
                      IN  IF k <= Len(content[f]) THEN content[f][k]
                          ELSE Msg("-", "-", 0, 0, <<>>)]
         /\ items = [f \in Folders |-> [k \in 1..Len(content[f]) |-> IdOf(f, k)]]
    /\ filters = <<FilterAB, FilterBC>>
    /\ file = Missing
    /\ learned = EmptyPatterns
    /\ pc = "connect"
    /\ stack = <<>>
    /\ run = 1
    /\ faults = 0
    /\ last = NoEvent
    /\ calls = <<>>
    /\ broken = {}
    /\ carried = EmptyPatterns

\* the mailboxes of the runs: the inbox holds any entry of the menu, the
\* second folder nothing or two messages, the third two or three messages
Contents ==
    {c \in [Folders -> FolderMenu] :
        /\ Len(c[2]) \in {0, 2} /\ (c[2] # <<>> => c[2][1].body = BodyX)
        /\ Len(c[3]) = 3 \/ (Len(c[3]) = 2 /\ c[3][2].body = BodyW)}
Init == InitOn(Trees, Contents)

Next ==
    \/ Connect \/ ConnectFail \/ Load \/ Save \/ NextRun
    \/ ProcEntry \/ ProcEntryFail \/ ProcCallDup \/ ProcCallRet
    \/ ProcLoop \/ ProcSubsFail \/ ProcHandled \/ ProcHandlerFail
    \/ DupEntry \/ DupEntryFail \/ DupNew \/ DupSkipCompared \/ DupSkipLearned
    \/ DupIdentical \/ DupPrompt \/ DupAccept \/ DupDecline \/ DupHeadFail \/ DupBelow
    \/ DupReplace \/ DupScanEnd \/ DupDelete \/ DupReturn \/ DupFail
    \/ RetEntry \/ RetEntryFail \/ RetNoMatch \/ RetFirst \/ RetNewer \/ RetOlder
    \/ RetScanEnd \/ RetDelete \/ RetDone \/ RetLoop \/ RetFail \/ RetSubsFail

Spec == Init /\ [][Next]_vars

\* main() is one sequential thread: a statement that can be executed is
\* executed, and the operator answers every prompt of line 148.  Failures
\* of the store are never forced.
\* the mailboxes of the runs checked for termination: every folder holds
\* messages, and every verdict of the duplicate detector occurs
LiveContents ==
    {c \in [Folders -> FolderMenu] :
        /\ Len(c[1]) >= 2 /\ c[1][1].body \in {BodyY, BodyX} /\ c[1][2].body # BodyW
        /\ Len(c[2]) = 2 /\ c[2][1].body = BodyX
        /\ Len(c[3]) = 2 /\ c[3][2].body = BodyW}
InitLive == InitOn(Trees, LiveContents)
SpecLive == InitLive /\ [][Next]_vars /\ WF_vars(Next)

(***************************************************************************)
(* retain_most_recent_emails on its own: one call on a folder with one     *)
(* subfolder, for every short message list and several filter lists.       *)
(***************************************************************************)
Ticks == {1, 2, 3}
RetBodies == {BodyX, BodyZ, BodyV, BodyW}
RetKinds == {Msg("s", "a", 1, t, b) : t \in Ticks, b \in RetBodies}
FilterLists == {<<FilterAB, FilterBC>>, <<FilterBC, FilterAB>>, <<FilterAB>>}
SubfolderMail == <<Msg("s", "a", 1, 2, BodyZ), Msg("s", "a", 1, 1, BodyX)>>

\* the sequences over S of length at most n
SeqsUpTo(S, n) == UNION {[1..k -> S] : k \in 0..n}

InitRetain ==
    /\ children = [f \in Folders |-> IF f = 1 THEN <<2>> ELSE <<>>]
    /\ \E content \in SeqsUpTo(RetKinds, MaxRetMsgs) :
         /\ mail = [id \in 1..(MaxRetMsgs + 2) |->
                      IF id <= Len(content) THEN content[id]
                      ELSE SubfolderMail[((id - Len(content) - 1) % 2) + 1]]
         /\ items = [f \in Folders |->
                       IF f = 1 THEN [k \in 1..Len(content) |-> k]
                       ELSE IF f = 2 THEN <<MaxRetMsgs + 1, MaxRetMsgs + 2>>
                       ELSE <<>>]
    /\ filters \in FilterLists
    /\ file = Missing
    /\ learned = EmptyPatterns
    /\ pc = "harness"
    /\ stack = <<RetFrame(Root)>>
    /\ run = 1
    /\ faults = 0
    /\ last = NoEvent
    /\ calls = <<>>
    /\ broken = {}
    /\ carried = EmptyPatterns

NextRetain ==
    \/ RetEntry \/ RetEntryFail \/ RetNoMatch \/ RetFirst \/ RetNewer \/ RetOlder
    \/ RetScanEnd \/ RetDelete \/ RetDone \/ RetLoop \/ RetFail \/ RetSubsFail

SpecRetain == InitRetain /\ [][NextRetain]_vars

(***************************************************************************)
(* find_and_remove_duplicates on its own: one call on a folder, then a     *)
(* second call on what the first left, with the learned patterns of the    *)
(* first.                                                                  *)
(***************************************************************************)
DupBodies == {BodyX, BodyU, BodyY, BodyZ, BodyW, BodyE, BodyQ}
DupKinds ==
    {Msg("s", "a", 1, t, b) : t \in {1, 2}, b \in DupBodies}
        \cup {Msg("t", "a", 1, 1, BodyX)}
KeyS == <<PyStr("s"), PyStr("a"), PyDate(1)>>
KeyT == <<PyStr("t"), PyStr("a"), PyDate(1)>>
\* learned_patterns as earlier folders of the run may have left it
DupLearnedBefore ==
    { EmptyPatterns,
      [duplicates |-> <<<<KeyS, normalize_body(BodyX)>>>>, non_duplicates |-> <<>>],
      [duplicates |-> <<>>, non_duplicates |-> <<<<<<KeyS, KeyS>>, TRUE>>>>] }

InitDedup ==
    /\ children = [f \in Folders |-> <<>>]
    /\ \E content \in SeqsUpTo(DupKinds, MaxDupMsgs) :
         /\ mail = [id \in 1..MaxDupMsgs |->
                      IF id <= Len(content) THEN content[id]
                      ELSE Msg("-", "-", 0, 0, <<>>)]
         /\ items = [f \in Folders |->
                       IF f = 1 THEN [k \in 1..Len(content) |-> k] ELSE <<>>]
    /\ filters = <<FilterAB, FilterBC>>
    /\ file = Missing
    /\ learned \in DupLearnedBefore
    /\ pc = "harness"
    /\ stack = <<DupFrame(Root)>>
    /\ run = 1
    /\ faults = 0
    /\ last = NoEvent
    /\ calls = <<>>
    /\ broken = {}
    /\ carried = EmptyPatterns

\* the second call of find_and_remove_duplicates on the same folder
DupAgain ==
    /\ pc = "harness" /\ stack = <<>> /\ Len(calls) = 1
    /\ stack' = <<DupFrame(Root)>>
    /\ last' = Step("again")
    /\ UNCHANGED <<store, items, file, learned, pc, run, faults, calls, broken, carried>>

NextDedup ==
    \/ DupEntry \/ DupEntryFail \/ DupNew \/ DupSkipCompared \/ DupSkipLearned
    \/ DupIdentical \/ DupPrompt \/ DupAccept \/ DupDecline \/ DupHeadFail \/ DupBelow
    \/ DupReplace \/ DupScanEnd \/ DupDelete \/ DupReturn \/ DupFail \/ DupAgain

SpecDedup == InitDedup /\ [][NextDedup]_vars

(***************************************************************************)
(* The learned-pattern store on its own: the end of one run of main()      *)
(* (save) followed by the start of the next (load), for the patterns a     *)
(* run can hold; and load on the files a run can find.                     *)
(***************************************************************************)
\* a key as load_learned_patterns returns it for the key text of a tuple of
\* three strings
KeyPlain == <<PyStr("s"), PyStr("a"), PyStr("d")>>
StoreKeys == {KeyS, KeyT, KeyPlain}
StoreBodies == {normalize_body(BodyX), normalize_body(BodyE)}
\* the dicts with keys of D and values of R
Dicts(D, R) ==
    {d \in SeqsUpTo(D \X R, Cardinality(D)) :
        \A i, j \in 1..Len(d) : d[i][1] = d[j][1] => i = j}
\* non_duplicates holds (key, seen[key]['key']), whose halves are equal
StorePatterns ==
    {[duplicates |-> d, non_duplicates |-> n] :
        d \in Dicts(StoreKeys, StoreBodies),
        n \in Dicts({<<k, k>> : k \in StoreKeys}, {TRUE})}

\* key texts of a file: a tuple display of three strings, the text str()
\* gives a key, and text that is no Python expression
PlainKeyText == TupleNode(<<StrNode("s"), StrNode("a"), StrNode("d")>>)
FileKeyTexts == {PlainKeyText, StrOfKey(KeyS), BadText}
FilePairTexts == {TupleNode(<<PlainKeyText, PlainKeyText>>), StrOfPair(<<KeyS, KeyS>>)}
StoreFiles ==
    {Missing, Garbage, NotObject}
        \cup {Doc(d, n) : d \in Dicts(FileKeyTexts, {normalize_body(BodyX)}),
                          n \in Dicts(FilePairTexts, {TRUE})}

InitStore ==
    /\ children = [f \in Folders |-> <<>>]
    /\ mail = [id \in 1..1 |-> Msg("-", "-", 0, 0, <<>>)]
    /\ items = [f \in Folders |-> <<>>]
    /\ filters = <<FilterAB, FilterBC>>
    /\ \/ /\ pc = "walk"
          /\ learned \in StorePatterns
          /\ file \in {Missing, Garbage}
       \/ /\ pc = "load"
          /\ learned = EmptyPatterns
          /\ file \in StoreFiles
    /\ stack = <<>>
    /\ run = 1
    /\ faults = 0
    /\ last = NoEvent
    /\ calls = <<>>
    /\ broken = {}
    /\ carried = EmptyPatterns

NextStore == Save \/ NextRun \/ Connect \/ Load

SpecStore == InitStore /\ [][NextStore]_vars

(***************************************************************************)
(* normalize_body on its own: the function is applied to a body, and then  *)
(* to its own result.  A body is a concatenation of a few pieces: a long   *)
(* word, a short word, a blank, a form feed, punctuation, a URL scheme, an *)
(* upper case word and a timestamp.                                        *)
(***************************************************************************)
MaxPieces == 5
PieceStamp == <<"2","0","2","4","-","0","1","-","0","2"," ",
                "1","0",":","0","0",":","0","0">>
BodyPieces == { <<"a","b","c">>, <<"x">>, <<" ">>, <<"\f">>, <<"!">>,
                <<"h","t","t","p">>, <<"D","e">>, PieceStamp }

RECURSIVE Concat(_)
Concat(ss) == IF ss = <<>> THEN <<>> ELSE Head(ss) \o Concat(Tail(ss))

InitNormalize ==
    /\ children = [f \in Folders |-> <<>>]
    /\ \E ps \in SeqsUpTo(BodyPieces, MaxPieces) :
          mail = [id \in 1..1 |-> Msg("s", "a", 1, 1, Concat(ps))]
    /\ items = [f \in Folders |-> IF f = Root THEN <<1>> ELSE <<>>]
    /\ filters = <<FilterAB, FilterBC>>
    /\ file = Missing
    /\ learned = EmptyPatterns
    /\ pc = "harness"
    /\ stack = <<>>
    /\ run = 1
    /\ faults = 0
    /\ last = NoEvent
    /\ calls = <<>>
    /\ broken = {}
    /\ carried = EmptyPatterns

\* body = normalize_body(body); last.before is the argument of the call
Normalize ==
    /\ pc = "harness" /\ stack = <<>> /\ Len(calls) < 2
    /\ mail' = [mail EXCEPT ![1].body = normalize_body(@)]
    /\ calls' = Append(calls, <<"normalize", Root>>)
    /\ last' = Event("normalize", Root, 1, NoMsg, FALSE, mail[1].body)
    /\ UNCHANGED <<children, filters, items, file, learned, pc, stack, run,
                   faults, broken, carried>>

NextNormalize == Normalize

SpecNormalize == InitNormalize /\ [][NextNormalize]_vars

(***************************************************************************)
(* Properties of retain_most_recent_emails.                                *)
(***************************************************************************)
\* a retention pass has just finished the messages of last.folder; they were
\* last.before when it started and are items[last.folder] now
RetPassDone == last.op = "ret_done"
Survivors == Range(items[last.folder])
Before == Range(last.before)
\* the messages of S that contain filter i, and those that compete for it
Containing(S, i) == {m \in S : BodyMatchesFilter(filters[i], mail[m].body)}
AssignedTo(S, i) == {m \in S : FirstFilter(mail[m].body) = i}
\* m is as recent as every message of S
Newest(m, S) == \A n \in S : ~Later(mail[n].time, mail[m].time)

\* C1 as stated: after a retention pass over a folder, at most one surviving
\* message contains any given filter substring.
C1_AtMostOneContaining ==
    RetPassDone =>
        \A i \in 1..Len(filters) : Cardinality(Containing(Survivors, i)) <= 1

\* C1 amended: after a retention pass that finished without a store error, at
\* most one surviving message has any given filter as its first matching
\* filter in BODY_FILTERS order.
C1_AtMostOneAssigned ==
    RetPassDone =>
        \A i \in 1..Len(filters) : Cardinality(AssignedTo(Survivors, i)) <= 1

\* C1's case: a finished pass over a folder that held two messages competing
\* for one filter and a message containing two filters, and deleted some
C1_Witness ==
    /\ RetPassDone
    /\ \E i \in 1..Len(filters) : Cardinality(AssignedTo(Before, i)) >= 2
    /\ \E m \in Before : Cardinality(MatchingFilters(mail[m].body)) >= 2
    /\ Survivors # Before

\* C2 as stated: for every filter some message of the folder contained, a
\* message containing it survives the pass and is as recent as every message
\* of the folder that contained it.
C2_NewestContainingSurvives ==
    RetPassDone =>
        \A i \in 1..Len(filters) :
            Containing(Before, i) # {} =>
                \E m \in Containing(Survivors, i) : Newest(m, Containing(Before, i))

\* C2 amended: for every filter that is the first matching filter of some
\* message of the folder, after a pass that finished without a store error a
\* message with that first matching filter survives, and it is as recent as
\* every message of the folder with that first matching filter.
C2_NewestAssignedSurvives ==
    RetPassDone =>
        \A i \in 1..Len(filters) :
            AssignedTo(Before, i) # {} =>
                \E m \in AssignedTo(Survivors, i) : Newest(m, AssignedTo(Before, i))

\* C2's case: three messages compete for one filter, the newest arrived
\* first, and it alone survives
C2_Witness ==
    /\ RetPassDone
    /\ \E i \in 1..Len(filters) :
         /\ Cardinality(AssignedTo(Before, i)) = 3
         /\ \A m \in Before \ {last.before[1]} :
               Later(mail[last.before[1]].time, mail[m].time)
         /\ AssignedTo(Survivors, i) = {last.before[1]}

\* every message of S contains at most one filter substring
OneFilterEach(S) ==
    \A m \in S : Cardinality(MatchingFilters(mail[m].body)) <= 1

\* C13: when every message of the folder contains at most one filter, then
\* after a retention pass, for each filter some message contained, exactly one
\* message containing it is left, it is as recent as every message that
\* contained it, and the pass deleted no message that contains no filter.
C13_OnlyNewestMatchKept ==
    (RetPassDone /\ OneFilterEach(Before)) =>
        /\ \A i \in 1..Len(filters) :
              Containing(Before, i) # {} =>
                 \E m \in Containing(Before, i) :
                    /\ Newest(m, Containing(Before, i))
                    /\ Containing(Survivors, i) = {m}
        /\ \A m \in Before \ Survivors : MatchingFilters(mail[m].body) # {}
        /\ Survivors \subseteq Before

\* C13's case: three messages with one filter each, presented in the order
\* T2, T3, T1; the pass has deleted the T1 and T2 messages and kept T3
C13_Witness ==
    /\ RetPassDone
    /\ Len(last.before) = 3
    /\ \A m \in Before : Cardinality(MatchingFilters(mail[m].body)) = 1
    /\ Len(filters) = 2
    /\ mail[last.before[1]].time.tick = 2
    /\ mail[last.before[2]].time.tick = 3
    /\ mail[last.before[3]].time.tick = 1
    /\ items[last.folder] = <<last.before[2]>>

\* the steps of the retention scan for a message that contains a filter
RetAssignOps == {"ret_first", "ret_newer", "ret_older"}
\* most_recent_messages has the same entry, or no entry, for filter i in
\* frames a and b
SameSlot(a, b, i) ==
    /\ (filters[i] \in DOMAIN a.recent) = (filters[i] \in DOMAIN b.recent)
    /\ filters[i] \in DOMAIN a.recent => a.recent[filters[i]] = b.recent[filters[i]]

\* C21: the step for a message leaves the most-recent entry of every filter
\* other than the first one its body contains as it was, the message becomes
\* the most-recent entry of no other filter, and the step lists nothing but
\* the message itself or the entry it replaced under that first filter.
C21_FirstFilterOnly ==
    [][last'.op \in RetAssignOps =>
          LET m == last'.m
              f == FirstFilter(mail[m].body)
              after == stack'[Len(stack)]
              added == Range(after.todel) \ Range(Top.todel)
          IN  /\ f # 0
              /\ \A i \in 1..Len(filters) : i # f => SameSlot(after, Top, i)
              /\ added \subseteq {m} \cup
                     (IF filters[f] \in DOMAIN Top.recent
                      THEN {Top.recent[filters[f]]} ELSE {})
              /\ Cardinality(added) <= 1]_vars

\* C21's case: a message that contains both filters has just become the
\* most recent of the first one, while an older message stays the most
\* recent of the second
C21_Witness ==
    /\ last.op \in {"ret_first", "ret_newer"}
    /\ Cardinality(MatchingFilters(mail[last.m].body)) = 2
    /\ Top.recent[filters[1]] = last.m
    /\ filters[2] \in DOMAIN Top.recent
    /\ Top.recent[filters[2]] # last.m
    /\ Later(mail[last.m].time, mail[Top.recent[filters[2]]].time)
    /\ Top.todel = <<>>

\* the messages of S that contain no filter
Unmatched(S) == {m \in S : MatchingFilters(mail[m].body) = {}}

\* C22: the step for a message that contains no filter changes neither the
\* most-recent entries nor the deletion list, and during a retention pass
\* every such message of the folder is in the folder and not listed.
C22_UnmatchedUntouched ==
    /\ [][last'.op = "ret_no_match" =>
              /\ stack'[Len(stack)].recent = Top.recent
              /\ stack'[Len(stack)].todel = Top.todel
              /\ items' = items]_vars
    /\ []((stack # <<>> /\ Top.fn = "ret" /\ Top.pc \in {"scan", "delete", "subs"}) =>
              /\ Unmatched(Range(Top.msgs)) \subseteq Range(items[Top.folder])
              /\ Unmatched(Range(Top.msgs)) \cap Range(Top.todel) = {}
              /\ \A i \in 1..Len(filters) :
                    filters[i] \in DOMAIN Top.recent =>
                       Top.recent[filters[i]] \notin Unmatched(Range(Top.msgs)))

\* C22's case: a finished pass over a folder whose second message contains
\* no filter and is newer than the others; the pass deleted a message and
\* the unmatched one is left
C22_Witness ==
    /\ RetPassDone
    /\ Len(last.before) = 3
    /\ last.before[2] \in Unmatched(Before)
    /\ \A m \in Before \ {last.before[2]} :
          Later(mail[last.before[2]].time, mail[m].time)
    /\ Cardinality(Survivors) = 2
    /\ last.before[2] \in Survivors

(***************************************************************************)
(* Properties of find_and_remove_duplicates.                               *)
(***************************************************************************)
\* a pass of find_and_remove_duplicates over last.folder has just returned
\* without a store error; the folder held last.before when it started
DupPassDone == last.op = "dup_done"
\* the steps that compute the ratio of line 129
CompareOps == {"dup_identical", "dup_prompt", "dup_head_fail", "dup_below"}
\* the steps that write a NotDuplicate verdict (lines 153, 163, 173)
NotDuplicateOps == {"dup_decline", "dup_head_fail", "dup_below"}
NormBody(m) == normalize_body(mail[m].body)

\* C3 as stated: a second pass over the survivors of a first pass, with the
\* learned patterns the first pass left, deletes nothing.
C3_SecondPassDeletesNothing ==
    (DupPassDone /\ Len(calls) = 2 /\ broken = {}) =>
        items[last.folder] = last.before

\* the folder of C7: exactly two messages, one key, equal normalized bodies
TwoAlike(msgs) ==
    /\ Len(msgs) = 2
    /\ KeyOf(msgs[1]) = KeyOf(msgs[2])
    /\ NormBody(msgs[1]) = NormBody(msgs[2])

\* C7 as stated: of two alike messages the pass deletes exactly one, the one
\* received later, and duplicates gains an entry for the key.
C7_LaterReceivedDeleted ==
    (DupPassDone /\ Len(calls) = 1 /\ TwoAlike(last.before)) =>
        /\ Len(items[last.folder]) = 1
        /\ \E d \in Before \ Survivors :
              Later(mail[d].time, mail[items[last.folder][1]].time)
        /\ KeyOf(last.before[1]) \in DictKeys(learned.duplicates)

\* C7 amended: of two alike messages, scanned while non_duplicates does not
\* hold the pair (key, key) and without a store error, the pass deletes
\* exactly one, the one the store presents second, and duplicates maps the key
\* to the normalized body.  (A pass over two alike messages adds nothing to
\* non_duplicates, so the pair is absent before the pass iff it is after.)
C7_SecondPresentedDeleted ==
    (/\ DupPassDone /\ Len(calls) = 1 /\ TwoAlike(last.before)
     /\ <<KeyOf(last.before[1]), KeyOf(last.before[1])>> \notin DictKeys(learned.non_duplicates)) =>
        /\ items[last.folder] = <<last.before[1]>>
        /\ KeyOf(last.before[1]) \in DictKeys(learned.duplicates)
        /\ DictGet(learned.duplicates, KeyOf(last.before[1])) = NormBody(last.before[2])

\* C7's case: two alike messages with different raw bodies, the newer
\* presented first, and the older one deleted
C7_Witness ==
    /\ DupPassDone /\ Len(calls) = 1 /\ TwoAlike(last.before)
    /\ mail[last.before[1]].body # mail[last.before[2]].body
    /\ Later(mail[last.before[1]].time, mail[last.before[2]].time)
    /\ items[last.folder] = <<last.before[1]>>

\* the pair of the verdict on candidate m is in non_duplicates
Recorded(m, rep) == <<KeyOf(m), KeyOf(rep)>> \in DictKeys(learned.non_duplicates)

\* C8 as stated: every NotDuplicate verdict records the pair (key,
\* representative key), lists neither the candidate nor the former
\* representative for deletion and makes the candidate the representative of
\* its key: when the pass has ended, by its return or at line 198, every
\* candidate of a NotDuplicate verdict is the representative of its key and
\* both messages of every verdict are in the folder.
C8_NotDuplicateEffect ==
    /\ last.op \in NotDuplicateOps =>
          /\ Recorded(last.m, last.rep)
          /\ last.m \notin Range(Top.dups)
          /\ last.rep \notin Range(Top.dups)
          /\ last.rep # last.m
    /\ last.op \in {"dup_done", "dup_fail"} =>
          /\ last.kept \subseteq Survivors
          /\ last.judged \subseteq last.reps

\* C8 amended: every NotDuplicate verdict records the pair (key,
\* representative key) and lists neither the candidate nor the former
\* representative for deletion, and both are in the folder when the pass has
\* ended, by its return or at line 198.  The step that records the pair
\* leaves the former representative in seen; the step that follows reads the
\* store and makes the candidate the representative of its key.  When the
\* pass has ended every recorded pair is in non_duplicates and every
\* candidate of a verdict is the representative of its key, except the
\* candidate of a verdict after whose record a store error ended the pass.
C8_RecordThenReplace ==
    /\ last.op \in NotDuplicateOps =>
          /\ Recorded(last.m, last.rep)
          /\ At("dup", "replace")
          /\ Top.seen[KeyOf(last.m)].rep = last.rep
          /\ last.m \notin Range(Top.dups)
          /\ last.rep \notin Range(Top.dups)
          /\ last.rep # last.m
    /\ last.op = "dup_replace" =>
          /\ Recorded(last.m, last.rep)
          /\ Top.seen[KeyOf(last.m)].rep = last.m
          /\ Top.seen[KeyOf(last.m)].body = NormBody(last.m)
          /\ last.m \notin Range(Top.dups)
          /\ last.rep \notin Range(Top.dups)
    /\ last.op \in {"dup_done", "dup_fail"} =>
          /\ last.kept \subseteq Survivors
          /\ \A m \in last.judged : Recorded(m, m)
          /\ last.judged \ last.reps \subseteq {last.m}
          /\ last.op = "dup_done" => last.judged \subseteq last.reps

\* C8's case: the first pass over a folder has recorded a NotDuplicate
\* verdict on its second message and was ended by a store error before the
\* assignment to seen[key]: the pair is in non_duplicates, the first message
\* is still the representative, and both messages are in the folder
C8_Witness ==
    /\ last.op = "dup_fail" /\ Len(calls) = 1
    /\ Len(last.before) >= 2
    /\ last.m = last.before[2]
    /\ last.judged = {last.m}
    /\ last.reps = {last.before[1]}
    /\ last.kept = {last.before[1], last.before[2]}
    /\ last.kept \subseteq Survivors
    /\ Recorded(last.m, last.before[1])
    /\ last.marked = <<>>

\* the ratio line 129 computes for candidate m against the message rep that
\* seen[key] was made from, and the ratio of their first 300 characters
PairRatio(rep, m) == Ratio(NormBody(rep), NormBody(m))
HeadRatio(rep, m) == Ratio(Prefix(NormBody(rep)), Prefix(NormBody(m)))
\* BODY_SIMILARITY_THRESHOLD <= ratio < 1.0
InBand(r) == ~RatioIsOne(r) /\ RatioAtLeast(r, BODY_SIMILARITY_THRESHOLD)
\* the step that shows the prompt of line 148
AskOps == {"dup_prompt"}

\* C17 as stated: a compared pair whose ratio lies in the band and whose
\* first-300 similarity is at least FIRST_300_CHARS_SIMILARITY_THRESHOLD,
\* equality included, goes to the operator; on accept the candidate is
\* listed for deletion and duplicates[key] is its normalized body.
C17_HeadAtThresholdEscalates ==
    /\ (/\ last.op \in CompareOps
         /\ InBand(PairRatio(last.rep, last.m))
         /\ RatioAtLeast(HeadRatio(last.rep, last.m),
                         FIRST_300_CHARS_SIMILARITY_THRESHOLD))
           => last.op \in AskOps
    /\ last.op = "dup_accept" =>
           /\ last.m \in Range(Top.dups)
           /\ KeyOf(last.m) \in DictKeys(learned.duplicates)
           /\ DictGet(learned.duplicates, KeyOf(last.m)) = NormBody(last.m)

\* the steps that classify the message the store has yielded, one per message
ScanOps == CompareOps \cup {"dup_new", "dup_skip_compared", "dup_skip_learned"}
\* no element occurs twice in the sequence
NoRepeats(q) == \A i, j \in 1..Len(q) : q[i] = q[j] => i = j

\* C18: the prompt is shown for a candidate only when its key was seen, its
\* pair was neither compared in this scan nor known as non-duplicate, the
\* ratio lies in the band and the first-300 check passed; the step of any
\* other message shows no prompt; and no message is prompted for twice in a
\* pass.
C18_PromptOnlyWhenAmbiguous ==
    (last.op \in ScanOps) =>
        /\ NoRepeats(Top.asked)
        /\ last.op \in AskOps =>
              /\ Top.asked[Len(Top.asked)] = last.m
              /\ last.rep # NoMsg /\ ~last.known
              /\ InBand(PairRatio(last.rep, last.m))
              /\ RatioAbove(HeadRatio(last.rep, last.m),
                            FIRST_300_CHARS_SIMILARITY_THRESHOLD)
        /\ last.op \notin AskOps => last.m \notin Range(Top.asked)
        /\ Len(Top.asked) <= Cardinality({KeyOf(m) : m \in Range(Top.msgs)})

\* C18's case: of three messages of one key the second was prompted for and
\* declined, and the third has just been skipped without a prompt
C18_Witness ==
    /\ last.op = "dup_skip_compared"
    /\ Len(Top.msgs) = 3
    /\ last.m = Top.msgs[3]
    /\ Top.asked = <<Top.msgs[2]>>
    /\ Top.msgs[2] \in Top.kept

SkipOps == {"dup_skip_compared", "dup_skip_learned"}
\* the frame of the pass after the step
TopAfter == stack'[Len(stack)]

\* C19: the step that skips a candidate leaves seen, duplicates,
\* compared_pairs and both learned mappings as they were, and a skipped
\* candidate is neither listed for deletion nor missing from the folder at
\* any later moment of the pass.
C19_SkipChangesNothing ==
    /\ [][last'.op \in SkipOps =>
              /\ Len(stack') = Len(stack)
              /\ TopAfter.seen = Top.seen
              /\ TopAfter.dups = Top.dups
              /\ TopAfter.compared = Top.compared
              /\ learned' = learned
              /\ items' = items]_vars
    /\ []((stack # <<>> /\ Top.fn = "dup") =>
              /\ Top.skipped \cap Range(Top.dups) = {}
              /\ Top.skipped \subseteq Range(items[Top.folder]))

\* C19's case: a pass has deleted its last listed message; it listed the
\* second of three alike messages and skipped the third, which is still there
C19_Witness ==
    /\ At("dup", "delete") /\ Top.idx > Len(Top.dups)
    /\ Len(Top.msgs) = 3
    /\ Top.dups = <<Top.msgs[2]>>
    /\ Top.skipped = {Top.msgs[3]}
    /\ items[Top.folder] = <<Top.msgs[1], Top.msgs[3]>>

\* the messages of S with key k
WithKey(S, k) == {m \in S : KeyOf(m) = k}
\* the keys of the messages the pass started on
PassKeys == {KeyOf(m) : m \in Range(Top.msgs)}

\* C20: in one folder scan no two ratio computations are for the same
\* unordered pair of keys; every computed pair is a key with itself; so each
\* key has at most one computation, at most one message listed for deletion
\* and at most one message deleted by the pass.
C20_OneComparisonPerKey ==
    (stack # <<>> /\ Top.fn = "dup") =>
        /\ \A i, j \in 1..Len(Top.ratios) :
              (Top.ratios[i] = Top.ratios[j]
                 \/ Top.ratios[i] = <<Top.ratios[j][2], Top.ratios[j][1]>>) => i = j
        /\ \A i \in 1..Len(Top.ratios) : Top.ratios[i][1] = Top.ratios[i][2]
        /\ \A k \in PassKeys :
              /\ Cardinality({i \in 1..Len(Top.ratios) : Top.ratios[i][1] = k}) <= 1
              /\ Cardinality({i \in 1..Len(Top.dups) : KeyOf(Top.dups[i]) = k}) <= 1
              /\ Cardinality(WithKey(Range(Top.msgs), k)
                                \ Range(items[Top.folder])) <= 1

\* C20's case: three messages of one key with the same normalized body; the
\* pass computed one ratio and has deleted one message, two are left
C20_Witness ==
    /\ At("dup", "delete") /\ Top.idx > Len(Top.dups)
    /\ Len(Top.msgs) = 3
    /\ Cardinality(PassKeys) = 1
    /\ \A m \in Range(Top.msgs) : NormBody(m) = NormBody(Top.msgs[1])
    /\ Len(Top.ratios) = 1
    /\ Len(items[Top.folder]) = 2

(***************************************************************************)
(* Properties of the learned-pattern store.                                *)
(***************************************************************************)
\* C4 as stated: what a run loads is what the run before it saved.
C4_LoadReturnsWhatWasSaved ==
    (last.op = "load" /\ run > 1) =>
        /\ DictEq(learned.duplicates, carried.duplicates)
        /\ DictEq(learned.non_duplicates, carried.non_duplicates)

\* some key text of the object cannot be decoded
Undecodable(obj) == \E t \in DictKeys(obj) : literal_eval(t).exc # "ok"
\* the file is no JSON, no JSON object, or holds a key that cannot be decoded
Malformed(f) ==
    \/ f.kind \in {"garbage", "not_object"}
    \/ /\ f.kind = "doc"
       /\ Undecodable(f.duplicates) \/ Undecodable(f.non_duplicates)

\* C9: load_learned_patterns returns to main(), which goes on to the inbox,
\* and what it returns for a missing or malformed file is two empty mappings.
C9_LoadNeverRaises ==
    last.op = "load" =>
        /\ pc = "walk" /\ stack = <<ProcFrame(Root)>>
        /\ (file.kind = "missing" \/ Malformed(file)) => learned = EmptyPatterns

\* C9's case: a file with a key that decodes and a key that does not was
\* loaded, and nothing of it was kept
C9_Witness ==
    /\ last.op = "load"
    /\ file.kind = "doc"
    /\ PlainKeyText \in DictKeys(file.duplicates)
    /\ StrOfKey(KeyS) \in DictKeys(file.duplicates)
    /\ learned = EmptyPatterns
    /\ pc = "walk"

(***************************************************************************)
(* Properties of a run of main().                                          *)
(***************************************************************************)
\* C5 as stated: a pair the previous run saved in non_duplicates is not
\* compared again, and no message of such a pair is deleted by duplicate
\* detection.
C5_SavedPairNotCompared ==
    /\ (last.op \in CompareOps /\ run > 1) =>
          ~PairIn(KeyOf(last.m), KeyOf(last.rep), DictKeys(carried.non_duplicates))
    /\ (last.op = "dup_delete" /\ run > 1) =>
          <<KeyOf(last.m), KeyOf(last.m)>> \notin DictKeys(carried.non_duplicates)

\* C6: no ratio is computed for a pair that non_duplicates holds, in either
\* order, at that moment.
C6_KnownPairNotCompared ==
    last.op \in CompareOps => ~last.known

\* C6's case: a pair recorded while one folder was scanned is met again in
\* another folder of the same run, and is skipped
C6_Witness ==
    /\ last.op = "dup_skip_learned"
    /\ last.known
    /\ PairIn(KeyOf(last.m), KeyOf(last.rep), DictKeys(learned.non_duplicates))
    /\ \E i \in 1..Len(calls) : calls[i][1] = "dup" /\ calls[i][2] # last.folder

\* the folders above f
Above(f) ==
    LET up[n \in 0..MaxFolders] ==
          IF n = 0 THEN {f}
          ELSE up[n - 1] \cup {a \in Folders :
                  \E c \in up[n - 1] : c \in Range(children[a])}
    IN  up[MaxFolders] \ {f}
\* both passes were started on f
Processed(f) == <<"dup", f>> \in Range(calls) /\ <<"ret", f>> \in Range(calls)
\* failures that end process_folder(a) before it has visited all subfolders
CutsSubtree == {"dup_entry", "ret_entry", "proc_subs"}
\* the places of failure C10 names
InPasses == {"dup_entry", "dup", "ret_entry", "ret_entry_nested", "ret",
             "ret_subs", "proc_subs"}
\* process_folder(inbox) has returned to main()
WalkReturned == pc = "walk" /\ stack = <<>>
\* the traversal of the run has ended: process_folder(inbox) has returned to
\* main(), or an exception has left it
WalkEnded == stack = <<>> /\ pc \in {"walk", "done"}
\* an exception has left process_folder(inbox): raised at line 249 or at
\* line 257 of the call on the inbox
Escaped == <<Root, "proc_entry">> \in broken \/ <<Root, "proc_handler">> \in broken

\* C10 as stated: when every failure of the run was raised in duplicate
\* detection, in retention or in the enumeration of subfolders, or in the
\* except clause that logs such a failure, then at the end of the traversal
\* both passes were started on every folder, except the folders below a
\* folder whose failure ended its process_folder and a folder one of whose
\* own passes failed before its try.
C10_FailureDoesNotAbortTraversal ==
    (WalkEnded /\ \A b \in broken : b[2] \in InPasses \cup {"proc_handler"}) =>
        \A f \in Folders :
            (/\ \A a \in Above(f) : \A p \in CutsSubtree : <<a, p>> \notin broken
             /\ <<f, "dup_entry">> \notin broken
             /\ <<f, "ret_entry">> \notin broken)
                => Processed(f)

\* the top frame is a pass over a folder's messages
InPass == stack # <<>> /\ Top.fn \in {"dup", "ret"}

\* C11: while a pass scans a folder the folder holds exactly the messages
\* the pass started on (the pass has deleted none), and each Delete of a pass
\* is issued when the scan has gone through every message of the folder.
C11_ClassifyThenMutate ==
    /\ (InPass /\ Top.pc \in {"scan", "prompt", "replace"}) =>
          items[Top.folder] = Top.msgs
    /\ last.op \in {"dup_delete", "ret_delete"} =>
          /\ InPass /\ Top.pc = "delete"
          /\ Top.scanned = Len(Top.msgs)

\* C11's case: retention deletes the first of three messages, which it
\* listed before it had seen the other two, after the scan of all three
C11_Witness ==
    /\ last.op = "ret_delete"
    /\ Len(Top.msgs) = 3
    /\ last.m = Top.msgs[1]
    /\ Top.scanned = 3
    /\ Len(items[Top.folder]) = 2

\* C14: a failed connection is the first and the last step of its run: the
\* process has exited, nothing was loaded, no pass was started, and from then
\* on no message is deleted and the patterns file is not written.
C14_ConnectFailureIsFatal ==
    /\ [](last.op = "connect_fail" =>
             /\ pc = "exit" /\ stack = <<>>
             /\ calls = <<>> /\ learned = EmptyPatterns)
    /\ [][/\ last'.op = "connect_fail" =>
               /\ last.op \in {"none", "start"}
               /\ UNCHANGED <<mail, items, file, learned>>
          /\ last.op = "connect_fail" => UNCHANGED vars]_vars

\* C14's case: the connection fails in the second run, on a store that still
\* holds messages and with a patterns file the first run wrote
C14_Witness ==
    /\ last.op = "connect_fail"
    /\ pc = "exit"
    /\ run = 2
    /\ file.kind = "doc" /\ file.non_duplicates # <<>>
    /\ \E f \in Folders : Len(items[f]) >= 2

\* the number of passes fn started on folder f in this run
Passes(fn, f) == Cardinality({i \in 1..Len(calls) : calls[i] = <<fn, f>>})

\* C15 as stated: every retention pass over a folder comes after a
\* duplicate-detection pass over the same folder in the same run.
C15_DedupBeforeRetention ==
    \A i \in 1..Len(calls) :
        calls[i][1] = "ret" =>
            \E j \in 1..(i - 1) : calls[j] = <<"dup", calls[i][2]>>

\* C16 as stated: when the walk of a run has ended without a failure, each
\* pass was started exactly once on every folder.
C16_EachFolderOncePerPass ==
    (WalkReturned /\ broken = {}) =>
        \A f \in Folders : Passes("dup", f) = 1 /\ Passes("ret", f) = 1

\* the k-th message of the list is the first of the newest among the
\* messages of the list with its first matching filter, or contains no filter
KeptOf(before, k) ==
    LET f == FirstFilter(mail[before[k]].body)
    IN  f = 0 \/
        \A j \in 1..Len(before) :
            (j # k /\ FirstFilter(mail[before[j]].body) = f) =>
                \/ Later(mail[before[k]].time, mail[before[j]].time)
                \/ (~Later(mail[before[j]].time, mail[before[k]].time) /\ k < j)
\* what a retention pass leaves of a folder, from that folder's list alone
RetainOf(before) ==
    LET keep == {k \in 1..Len(before) : KeptOf(before, k)}
    IN  [n \in 1..Cardinality(keep) |->
            before[CHOOSE k \in keep : Cardinality({x \in keep : x < k}) = n - 1]]
\* g and f have the same parent
Siblings(f, g) ==
    f # g /\ \E a \in Folders : {f, g} \subseteq Range(children[a])

\* C23: what a retention pass that ends without a store error leaves of a
\* folder is determined by the list of that folder alone, whatever the other
\* folders hold, and a Delete of a retention pass removes a message of the
\* folder of the pass and leaves every other folder as it was.
C23_RetentionFolderScoped ==
    /\ [](RetPassDone => items[last.folder] = RetainOf(last.before))
    /\ [][last'.op = "ret_delete" =>
              /\ last'.m \in Range(Top.msgs)
              /\ \A g \in Folders \ {Top.folder} : items'[g] = items[g]]_vars

\* C23's case: a pass has deleted a message of its folder and kept another,
\* while a sibling folder and the parent folder each hold a newer message
\* with the same first matching filter
C23_Witness ==
    /\ RetPassDone
    /\ Survivors # Before
    /\ \E m \in Survivors :
          /\ FirstFilter(mail[m].body) # 0
          /\ \E g \in Folders : \E n \in Range(items[g]) :
                /\ Siblings(last.folder, g)
                /\ FirstFilter(mail[n].body) = FirstFilter(mail[m].body)
                /\ Later(mail[n].time, mail[m].time)
          /\ \E a \in Above(last.folder) : \E n \in Range(items[a]) :
                /\ FirstFilter(mail[n].body) = FirstFilter(mail[m].body)
                /\ Later(mail[n].time, mail[m].time)

Loads == {i \in 1..Len(calls) : calls[i][1] = "load"}
Saves == {i \in 1..Len(calls) : calls[i][1] = "save"}
PassCalls == {i \in 1..Len(calls) : calls[i][1] \in {"dup", "ret"}}

\* C24 as stated: a run that has connected and ended has loaded the patterns
\* exactly once, before every pass, and saved them exactly once, after every
\* pass.
C24_LoadOnceSaveOnceAlways ==
    pc = "done" =>
        /\ Loads = {1}
        /\ Saves = {Len(calls)}

\* C24: in a run that has connected, the patterns are loaded exactly once and
\* before every pass; they are saved at most once, when the processing of
\* every folder has ended and after every pass; and a run that has ended has
\* saved them exactly when no exception left process_folder(inbox).
C24_LoadOnceSaveAtMostOnce ==
    /\ (calls # <<>> \/ stack # <<>> \/ pc \in {"walk", "done"}) => Loads = {1}
    /\ Cardinality(Saves) <= 1
    /\ Saves # {} => (Saves = {Len(calls)} /\ stack = <<>> /\ pc = "done")
    /\ pc = "done" => (Saves # {} <=> ~Escaped)

\* C24's case: a run has ended with its save, after passes over several
\* folders, one of them with a failure
C24_Witness ==
    /\ pc = "done" /\ last.op = "save"
    /\ Cardinality({calls[i][2] : i \in PassCalls}) >= 2
    /\ broken # {}
    /\ Saves = {Len(calls)} /\ Loads = {1}

Runs == 1..MaxRuns

\* C25 as stated: every run that has connected goes on to its save.
C25_EveryRunSaves ==
    \A r \in Runs :
        (run = r /\ pc = "load") ~> (run = r /\ last.op = "save")

\* C25: every run that has connected ends, whatever failures were raised in
\* its folders and whatever the answers to its prompts, and it ends with its
\* save unless an exception has left process_folder(inbox).
C25_EveryRunEnds ==
    \A r \in Runs :
        (run = r /\ pc = "load") ~>
            (/\ run = r /\ pc = "done" /\ stack = <<>>
             /\ last.op = "save" \/ Escaped)

\* C25's case: a run has ended with its save after a failure in one of its
\* folders and after a prompt was answered with a refusal
C25_Witness ==
    /\ pc = "done" /\ stack = <<>> /\ last.op = "save"
    /\ \E f \in Folders \ {Root} : \E p \in InPasses : <<f, p>> \in broken
    /\ learned.non_duplicates # <<>>
    /\ file = save_learned_patterns(learned)

\* C26 as stated: a candidate is never classified Duplicate when its
\* normalized body or that of its representative is empty, and it stays in
\* the folder when the pass has ended.
C26_EmptyBodyNeverDuplicate ==
    /\ (/\ last.op \in CompareOps
        /\ NormBody(last.m) = <<>> \/ NormBody(last.rep) = <<>>)
           => last.op \in NotDuplicateOps
    /\ DupPassDone =>
          \A m \in Range(last.before) :
              NormBody(m) = <<>> => m \in Range(items[last.folder])

\* a pass of find_and_remove_duplicates has ended, by its return or at
\* line 198
DupPassEnded == last.op \in {"dup_done", "dup_fail"}

\* C27 as stated: when a pass has ended, every message whose classification
\* added its key to learned_patterns['duplicates'] has been deleted, also
\* when the pass ended with an error.
C27_RecordedMeansDeleted ==
    DupPassEnded =>
        \A m \in Range(last.marked) :
            /\ KeyOf(m) \in DictKeys(learned.duplicates)
            /\ m \notin Range(items[last.folder])

\* the positions in the list the pass started on of the messages the folder
\* no longer holds
Deleted == {i \in 1..Len(last.before) : last.before[i] \notin Survivors}
\* the first message of its key in the list the pass started on
FirstOfKey(i) ==
    \A j \in 1..(i - 1) : KeyOf(last.before[j]) # KeyOf(last.before[i])

\* C28: when a pass of find_and_remove_duplicates has ended, by its return or
\* by an error, the first message of every key in the scan order is still in
\* the folder, so every key of the folder has a message left, and every
\* message that was deleted had an earlier message of its key; each Delete
\* of the pass removes a message that is not the first of its key.
C28_FirstOfKeySurvives ==
    /\ [](DupPassEnded =>
            /\ \A i \in 1..Len(last.before) : FirstOfKey(i) => i \notin Deleted
            /\ \A m \in Before : WithKey(Survivors, KeyOf(m)) # {}
            /\ \A i \in Deleted :
                  \E j \in 1..(i - 1) :
                      KeyOf(last.before[j]) = KeyOf(last.before[i]))
    /\ [][last'.op = "dup_delete" =>
              \E i, j \in 1..Len(Top.msgs) :
                  /\ j < i /\ Top.msgs[i] = last'.m
                  /\ KeyOf(Top.msgs[j]) = KeyOf(last'.m)
                  /\ Top.msgs[j] \in Range(items'[Top.folder])]_vars

\* C28's case: a pass over messages of two keys has returned after deleting
\* a message, the first message of each key is left, and the deleted message
\* was newer than the first message of its key
C28_Witness ==
    /\ DupPassDone
    /\ Cardinality({KeyOf(m) : m \in Before}) = 2
    /\ \E i \in Deleted : \E j \in 1..(i - 1) :
          /\ KeyOf(last.before[j]) = KeyOf(last.before[i])
          /\ FirstOfKey(j) /\ last.before[j] \in Survivors
          /\ Later(mail[last.before[i]].time, mail[last.before[j]].time)

\* a NotDuplicate verdict for the key of m was on record when the pass began
KnownBefore(fr, m) == <<KeyOf(m), KeyOf(m)>> \in fr.known0

\* C29: a message whose key had a NotDuplicate verdict on record when the
\* pass over its folder began is either the first of its key in the scan or
\* passed over at lines 125-127: no ratio is computed for it, it is not
\* listed for deletion, and the pass deletes no message of that key.
C29_LearnedVerdictIsShared ==
    /\ [][(last'.op \in ScanOps /\ KnownBefore(Top, last'.m)) =>
              /\ last'.op \in {"dup_new", "dup_skip_learned"}
              /\ last'.op = "dup_skip_learned" <=> KeyOf(last'.m) \in DOMAIN Top.seen
              /\ TopAfter.ratios = Top.ratios
              /\ TopAfter.dups = Top.dups
              /\ UNCHANGED <<items, learned>>]_vars
    /\ [][last'.op = "dup_delete" => ~KnownBefore(Top, last'.m)]_vars

\* C29's case: in a folder scanned after the folder where the verdict was
\* recorded, a message whose normalized body equals that of the folder's
\* representative has been passed over
C29_Witness ==
    /\ last.op = "dup_skip_learned"
    /\ stack # <<>> /\ Top.fn = "dup" /\ KnownBefore(Top, last.m)
    /\ NormBody(last.m) = NormBody(last.rep)
    /\ \E i \in 1..(Len(calls) - 1) :
          calls[i][1] = "dup" /\ calls[i][2] # last.folder
    /\ last.m \in Range(items[last.folder]) /\ last.m \notin Range(Top.dups)

\* the positions in the list the pass started on of the messages with first
\* matching filter i that are as recent as every such message
TiedAt(i) ==
    {k \in 1..Len(last.before) :
        /\ last.before[k] \in AssignedTo(Before, i)
        /\ Newest(last.before[k], AssignedTo(Before, i))}
SameTime(m, n) == ~Later(mail[m].time, mail[n].time) /\ ~Later(mail[n].time, mail[m].time)

\* C30: a message replaces the most recent message of its filter only when
\* its received time is strictly greater; a message with an equal or smaller
\* time is listed for deletion and the entry stays.  So after a pass that
\* finished without a store error, of the messages that share the greatest
\* received time of a filter the first of the scan is left and no other.
C30_FirstOfTiedSurvives ==
    /\ [](RetPassDone =>
            \A i \in 1..Len(filters) :
                TiedAt(i) # {} =>
                    \E k \in TiedAt(i) :
                        /\ \A j \in TiedAt(i) : k <= j
                        /\ AssignedTo(Survivors, i) = {last.before[k]})
    /\ [][last'.op \in {"ret_newer", "ret_older"} =>
              LET m == last'.m
                  f == filters[FirstFilter(mail[m].body)]
                  cur == Top.recent[f]
              IN  /\ last'.op = "ret_newer" <=> Later(mail[m].time, mail[cur].time)
                  /\ SameTime(m, cur) =>
                        /\ TopAfter.recent[f] = cur
                        /\ TopAfter.todel = Append(Top.todel, m)]_vars

\* C30's case: three messages of one filter with the same received time; the
\* pass has left the first of the scan alone
C30_Witness ==
    /\ RetPassDone
    /\ Len(last.before) = 3
    /\ \E i \in 1..Len(filters) : TiedAt(i) = {1, 2, 3}
    /\ \A m, n \in Before : SameTime(m, n)
    /\ items[last.folder] = <<last.before[1]>>

(***************************************************************************)
(* Properties of normalize_body.                                           *)
(***************************************************************************)
\* C12 as stated: normalize_body applied to its own result returns that
\* result, normalize_body(normalize_body(x)) = normalize_body(x).
C12_NormalizeIdempotent ==
    (last.op = "normalize" /\ Len(calls) = 2) => mail[1].body = last.before

====
